---- MODULE Spec2Model ----
(***************************************************************************)
(* Verification model of the GF(2) linear-algebra solver                   *)
(* (src/src/math/linear_algebra.rs), the Mt19337 generator                 *)
(* (src/src/crypto/random.rs) and the state-recovery attack                *)
(* (src/src/attacks/random.rs).                                            *)
(*                                                                         *)
(* Representation of machine integers.  TLC integers are 32-bit signed, so *)
(* a u32 is held as the pair <<hi, lo>> of its 16-bit halves               *)
(* (value = hi * 65536 + lo), and bitwise work is done on its bit array    *)
(* b \in [0..31 -> {0,1}], b[i] = bit i (bit 0 least significant).  A u64  *)
(* limb of a Vector is held as its bit array [0..63 -> {0,1}].  Rust       *)
(* arrays and Vecs are functions on 0..len-1, so indices are the source's. *)
(***************************************************************************)
EXTENDS Integers, Sequences, FiniteSets, TLC

VARIABLES
    mt,          \* the live generator: [state, index]
    clone,       \* the generator rebuilt by from_state
    recovered,   \* let mut state = [0; 624] of the attack: the recovered words
    outputs,     \* number of next_u32 calls made on mt
    last,        \* [orig, clone]: the last words returned by mt and by clone
    twists,      \* number of twist() calls next_u32 made on mt
    seed_value,  \* the seed mt was created from
    attack,      \* Unseeded, Drawing, Hijacked, Failed (or Idle)
    written,     \* the indices of state the last twist() call on mt assigned
    pretwist,    \* the state array the last twist() call on mt started from
    probe,       \* one word through temper and recover_state_from: [stage, x, y, w]
    debug_assertions,  \* the build profile: TRUE when debug_assert! is compiled in
    system,      \* lhs and rhs while a system is built, then the GaussElimination value
    given,       \* the system as it was handed to GaussElimination::new
    solution,    \* the known solution a system was built from
    pc,          \* Start, Building, Constructed, Done (or Idle)
    result,      \* what solve() returned: [res, value]
    vec,         \* a Vector under element access
    access,      \* the last element access: [op, first, second, panicked, value]
    other,       \* the operand of the last + or +=, or the integer vec was made from
    mat,         \* a Matrix under construction and operation
    matop,       \* the last Matrix operation: [op, before, arg, panicked]
    call,        \* the last call on a generator in use: [op, seed, reads, out, panicked]
    buffer,      \* a buffer through the stream cipher: [plain, cipher, decrypted]
    at_column,   \* the column solve() processes next
    again        \* what a second solve() on the same solver returned: [res, value],
                 \* value the Ok vector

mtvars == <<mt, clone, recovered, outputs, last, twists, seed_value, attack, written,
            pretwist>>
gevars == <<system, given, solution, pc, result>>
vevars == <<vec, access, other>>
mavars == <<mat, matop>>
stvars == <<call, buffer>>
slvars == <<at_column, again>>
vars == <<mt, clone, recovered, outputs, last, twists, seed_value, attack, written,
          pretwist, probe, debug_assertions, system, given, solution, pc, result,
          vec, access, other, mat, matop, call, buffer, at_column, again>>

(***************************** u32 arithmetic ******************************)

HALF == 2^16

\* The bit array of the u32 <<hi, lo>>.
bits(w) ==
    [i \in 0..31 |-> IF i < 16 THEN (w[2] \div (2^i)) % 2
                               ELSE (w[1] \div (2^(i - 16))) % 2]

half(b, o) ==
      b[o]           + 2 * b[o + 1]     + 4 * b[o + 2]      + 8 * b[o + 3]
    + 16 * b[o + 4]  + 32 * b[o + 5]    + 64 * b[o + 6]     + 128 * b[o + 7]
    + 256 * b[o + 8] + 512 * b[o + 9]   + 1024 * b[o + 10]  + 2048 * b[o + 11]
    + 4096 * b[o + 12] + 8192 * b[o + 13] + 16384 * b[o + 14] + 32768 * b[o + 15]

\* The u32 <<hi, lo>> of a 32-entry bit array.
word(b) == <<half(b, 16), half(b, 0)>>

\* Wrapping<u32> operators: ^ & | >> << on bit arrays.
xor(a, b) == [i \in 0..31 |-> (a[i] + b[i]) % 2]
and(a, b) == [i \in 0..31 |-> a[i] * b[i]]
or(a, b)  == [i \in 0..31 |-> IF a[i] + b[i] > 0 THEN 1 ELSE 0]
shr(a, k) == [i \in 0..31 |-> IF i + k <= 31 THEN a[i + k] ELSE 0]
shl(a, k) == [i \in 0..31 |-> IF i >= k THEN a[i - k] ELSE 0]

\* x * y for 16-bit x, y, as the pair <<high 16 bits, low 16 bits>> of the
\* 32-bit product, computed without leaving TLC's integer range.
mul16(x, y) ==
    LET t0 == x * (y % 256)
        t1 == x * (y \div 256)
        s  == t0 + (t1 % 256) * 256
    IN  <<(s \div HALF + t1 \div 256) % HALF, s % HALF>>

\* Wrapping<u32> multiplication: a * b mod 2^32.
wrapping_mul(a, b) ==
    LET low   == mul16(a[2], b[2])
        cross == mul16(a[1], b[2])[2] + mul16(a[2], b[1])[2]
    IN  <<(low[1] + cross) % HALF, low[2]>>

\* Wrapping<u32> addition: a + b mod 2^32.
wrapping_add(a, b) ==
    LET lo == a[2] + b[2]
    IN  <<(a[1] + b[1] + lo \div HALF) % HALF, lo % HALF>>

\* `i as u32` for a usize i below 2^31.
as_u32(i) == <<i \div HALF, i % HALF>>

\* A Rust array or Vec given by a function on 0..len-1, as an explicit table.
array(f) == f @@ << >>

(****************************** Mt19337 ************************************)

SIZE == 624
SEED_MULT   == <<27655, 35173>>     \* 0x6c07_8965
UPPER_MASK  == <<32768, 0>>         \* 0x8000_0000
LOWER_MASK  == <<32767, 65535>>     \* 0x7fff_ffff
FIRST_MASK  == <<40236, 22144>>     \* 0x9d2c_5680
SECOND_MASK == <<61382, 0>>         \* 0xefc6_0000
TWIST_CONST == <<39176, 45279>>     \* 0x9908_b0df
ONE         == <<0, 1>>             \* Wrapping(1)

\* let x = (state[i] & UPPER_MASK) | (state[j] & LOWER_MASK);
twist_mix(state, i, j) ==
    or(and(bits(state[i]), bits(UPPER_MASK)), and(bits(state[j]), bits(LOWER_MASK)))

\* state[s] ^ (x >> 1) ^ ((x & Wrapping(1)) * TWIST_CONST)
twist_word(state, s, x) ==
    word(xor(xor(bits(state[s]), shr(x, 1)),
             bits(wrapping_mul(word(and(x, bits(ONE))), TWIST_CONST))))

\* One iteration of either loop of twist: state[i] = state[s] ^ (x >> 1) ^ ...
\* with x mixed from state[i] and state[i + 1].
twist_at(state, i, s) ==
    [state EXCEPT ![i] = twist_word(state, s, twist_mix(state, i, i + 1))]

\* for i in lo..hi { state[i] = state[n + i] ^ ... }, the iterations in
\* increasing order.  The range is split in two, and the first half is computed
\* (DOMAIN done) before the second starts, to keep TLC's evaluation shallow.
RECURSIVE twist_first(_, _, _, _)
twist_first(state, lo, hi, n) ==
    IF lo >= hi THEN state
    ELSE IF hi - lo = 1 THEN twist_at(state, lo, n + lo)
    ELSE LET mid  == (lo + hi) \div 2
             done == twist_first(state, lo, mid, n)
         IN  IF DOMAIN done = {} THEN done ELSE twist_first(done, mid, hi, n)

\* for i in lo..hi { state[i] = state[i - n] ^ ... }, in increasing order.
RECURSIVE twist_second(_, _, _, _)
twist_second(state, lo, hi, n) ==
    IF lo >= hi THEN state
    ELSE IF hi - lo = 1 THEN twist_at(state, lo, lo - n)
    ELSE LET mid  == (lo + hi) \div 2
             done == twist_second(state, lo, mid, n)
         IN  IF DOMAIN done = {} THEN done ELSE twist_second(done, mid, hi, n)

\* let m = 227; of twist.
twist_m == 227

\* The indices of state that twist assigns: those of its two loops and k.
twist_indices ==
    (0..(twist_m - 1)) \cup ((SIZE - twist_m)..(SIZE - 2)) \cup {SIZE - 1}

\* The last assignment of twist: state[k] = state[n - 1] ^ ..., x from state[k], state[0].
twist_last(state, k, n) ==
    [state EXCEPT ![k] = twist_word(state, n - 1, twist_mix(state, k, 0))]

\* Mt19337::twist: the state array after the call (index is reset to 0).
twist_state(state) ==
    LET k == SIZE - 1
        m == twist_m
        n == SIZE - m
    IN  twist_last(twist_second(twist_first(state, 0, m, n), n, SIZE - 1, n), k, n)

\* A faulty twist that leaves index as it finds it.
twist_keeping_index(g) == [state |-> twist_state(g.state), index |-> g.index]

\* Mt19337::twist on generator g.
twist(g) == [state |-> twist_state(g.state), index |-> 0]

\* The tempering of next_u32 on a bit array.
temper_bits(x0) ==
    LET x1 == xor(x0, shr(x0, 11))
        x2 == xor(x1, and(shl(x1, 7), bits(FIRST_MASK)))
        x3 == xor(x2, and(shl(x2, 15), bits(SECOND_MASK)))
    IN  xor(x3, shr(x3, 18))

temper(x) == word(temper_bits(bits(x)))

\* next_u32 after its twist test: reads state[index], tempers it, index += 1.
\* `read` is the index read; the read panics when it is outside the array.
next_u32_read(t) ==
    IF t.index \notin DOMAIN t.state
    THEN [gen |-> t, out |-> <<0, 0>>, read |-> t.index, panicked |-> TRUE]
    ELSE [gen |-> [state |-> t.state, index |-> t.index + 1],
          out |-> temper(t.state[t.index]), read |-> t.index, panicked |-> FALSE]

\* A faulty next_u32 that twists at every call.
next_u32_twist_always(g) == next_u32_read(twist(g))

\* Mt19337::next_u32: [gen |-> the generator after the call, out |-> x.0].
next_u32(g) == next_u32_read(IF g.index >= SIZE THEN twist(g) ELSE g)

\* A faulty next_u8 that takes the high byte of the word.
next_u8_high_byte(g) == [next_u32(g) EXCEPT !.out = @[1] \div 256]

\* Mt19337::next_u8: (self.next_u32() & 0xff) as u8, a number in 0..255.
next_u8(g) == [next_u32(g) EXCEPT !.out = @[2] % 256]

\* Mt19337::next_u16: (self.next_u32() & 0xffff) as u16, a number in 0..65535.
next_u16(g) == [next_u32(g) EXCEPT !.out = @[2]]

\* The second next_u32 of next_u64, after the first returned `first`.
next_u64_second(first, second) ==
    [gen |-> second.gen, out |-> <<first.out, second.out>>,
     read |-> <<first.read, second.read>>, panicked |-> second.panicked]

\* Mt19337::next_u64: ((self.next_u32() as u64) << 32) ^ (self.next_u32() as u64),
\* as the pair <<high word, low word>>; read is the pair of indices read.
next_u64_first(first) ==
    IF first.panicked THEN [first EXCEPT !.read = <<first.read>>]
    ELSE next_u64_second(first, next_u32(first.gen))

next_u64(g) == next_u64_first(next_u32(g))

\* A faulty seed loop body that leaves out "+ Wrapping(i as u32)".
seed_at_without_index(state, i) ==
    LET p == bits(state[i - 1])
        x == word(xor(p, shr(p, 30)))
    IN  [state EXCEPT ![i] = wrapping_mul(SEED_MULT, x)]

\* The body of the loop of Mt19337::seed:
\* state[i] = SEED_MULT * (state[i - 1] ^ (state[i - 1] >> 30)) + Wrapping(i as u32).
seed_at(state, i) ==
    LET p == bits(state[i - 1])
        x == word(xor(p, shr(p, 30)))
    IN  [state EXCEPT ![i] = wrapping_add(wrapping_mul(SEED_MULT, x), as_u32(i))]

\* for i in lo..hi { ... } of Mt19337::seed, in increasing order.
RECURSIVE seed_fill(_, _, _)
seed_fill(state, lo, hi) ==
    IF lo >= hi THEN state
    ELSE IF hi - lo = 1 THEN seed_at(state, lo)
    ELSE LET mid  == (lo + hi) \div 2
             done == seed_fill(state, lo, mid)
         IN  IF DOMAIN done = {} THEN done ELSE seed_fill(done, mid, hi)

\* A faulty seed that leaves state[0] as it finds it.
seeded_keeping_first(g, s) == [g EXCEPT !.state = seed_fill(g.state, 1, SIZE)]

\* Mt19337::seed on generator g up to its call of twist.
seeded(g, s) == [g EXCEPT !.state = seed_fill([g.state EXCEPT ![0] = s], 1, SIZE)]

\* A faulty seed that leaves out the call of twist.
seed_without_twist(g, s) == seeded(g, s)

\* Mt19337::seed on generator g.
seed(g, s) == twist(seeded(g, s))

\* Self { state: [Wrapping(0); Mt19337::SIZE], index: 0 } of Mt19337::new.
unseeded == [state |-> array([i \in 0..(SIZE - 1) |-> <<0, 0>>]), index |-> 0]

\* Mt19337::new.
new(s) == seed(unseeded, s)

\* A faulty from_state that ignores the index it is given.
from_state_rewound(state, index) ==
    [state |-> array([i \in 0..(SIZE - 1) |-> state[i]]), index |-> 0]

\* Mt19337::from_state.
from_state(state, index) ==
    [state |-> array([i \in 0..(SIZE - 1) |-> state[i]]), index |-> index]

\* PartialEq for Mt19337.
eq(a, b) == a.index = b.index /\ \A i \in 0..(SIZE - 1) : a.state[i] = b.state[i]

(*********** Mt19337 as a stream cipher (crypto/symmetric.rs) **************)

\* x ^ y on u8 values held as numbers in 0..255.
byte_xor(x, y) ==
    LET bit(v, i) == (v \div (2^i)) % 2
        sum(i) == ((bit(x, i) + bit(y, i)) % 2) * (2^i)
    IN  sum(0) + sum(1) + sum(2) + sum(3) + sum(4) + sum(5) + sum(6) + sum(7)

\* The loop of encrypt_mut from byte i on: for (x, y) in buffer.iter_mut().zip(self)
\* { *x ^= y }, where y is Iterator::next = Some(self.next_u8()).  A buffer is a
\* function on 0..len-1.  [gen, out, panicked].
RECURSIVE encrypt_from(_, _, _)
encrypt_from(g, buf, i) ==
    IF i \notin DOMAIN buf THEN [gen |-> g, out |-> buf, panicked |-> FALSE]
    ELSE LET y == next_u8(g)
         IN  IF y.panicked THEN [gen |-> y.gen, out |-> buf, panicked |-> TRUE]
             ELSE encrypt_from(y.gen, [buf EXCEPT ![i] = byte_xor(@, y.out)], i + 1)

\* StreamCipherMode::encrypt_mut for an Iterator<Item = u8>
encrypt_mut(g, buf) == encrypt_from(g, buf, 0)

\* StreamCipherMode::decrypt_mut: self.encrypt_mut(buffer)
decrypt_mut(g, buf) == encrypt_mut(g, buf)

\* StreamCipherMode::encrypt_buffer: encrypt_mut on input_buffer.to_vec()
encrypt_buffer(g, input_buffer) == encrypt_mut(g, input_buffer)

\* StreamCipherMode::decrypt_buffer: decrypt_mut on input_buffer.to_vec()
decrypt_buffer(g, input_buffer) == decrypt_mut(g, input_buffer)

(************************ Vector (linear_algebra.rs) ***********************)

\* The outcome of an operation that panicked (debug_assert!, assert_eq!, or an
\* out-of-range index into a Vec): PANIC where a Vector, a Matrix or a solver
\* was due, PANIC_U8 (no u8 value) where an element was due, and the result
\* "Panic" where a Result was due.
PANIC == [panic |-> TRUE]
PANIC_U8 == 255 + 1

\* u64 limbs as bit arrays on 0..63.
limb_zeroes == array([j \in 0..63 |-> 0])              \* 0u64
\* Bitwise or of two limbs.
limb_or(a, b) == array([j \in 0..63 |-> IF a[j] + b[j] > 0 THEN 1 ELSE 0])
limb_xor(a, b) == array([j \in 0..63 |-> (a[j] + b[j]) % 2])

\* (dimension + 63) >> 6
limb_count(dimension) == (dimension + 63) \div 64

\* Vector::zeroes
Vector_zeroes(dimension) ==
    [dimension |-> dimension,
     limbs |-> array([l \in 0..(limb_count(dimension) - 1) |-> limb_zeroes])]

\* Vector::get_element: the element, or PANIC.  debug_assert! is compiled only
\* into debug builds; the index into limbs is checked in every build.
Vector_get_element(v, index) ==
    IF debug_assertions /\ ~(index < v.dimension) THEN PANIC_U8
    ELSE IF (index \div 64) \notin DOMAIN v.limbs THEN PANIC_U8
    ELSE v.limbs[index \div 64][index % 64]

\* Vector::set_element: the vector after the call, or PANIC.  Bit j of the limb
\* becomes (limb & mask) ^ value with mask = 0xffffffff_ffffffff ^ (1 << (index & 63))
\* and value = ((value & 1) as u64) << (index & 63).
Vector_set_element(v, index, value) ==
    IF debug_assertions /\ ~(index < v.dimension) THEN PANIC
    ELSE IF (index \div 64) \notin DOMAIN v.limbs THEN PANIC
    ELSE LET k == index % 64
             one_shl_k(j) == IF j = k THEN 1 ELSE 0
             mask(j) == (1 + one_shl_k(j)) % 2
             val(j)  == (value % 2) * one_shl_k(j)
         IN  [v EXCEPT !.limbs[index \div 64] =
                    array([j \in 0..63 |-> (@[j] * mask(j) + val(j)) % 2])]

\* Vector::swap_elements: the vector after the call, or PANIC.
Vector_swap_elements(v, first, second) ==
    LET first_element  == Vector_get_element(v, first)
        second_element == Vector_get_element(v, second)
    IN  IF first_element = PANIC_U8 \/ second_element = PANIC_U8 THEN PANIC
        ELSE LET w == Vector_set_element(v, first, second_element)
             IN  IF w = PANIC THEN PANIC ELSE Vector_set_element(w, second, first_element)

\* Vector::add_to_element (value is a bit: u8 ^ on {0, 1}).
Vector_add_to_element(v, index, value) ==
    LET e == Vector_get_element(v, index)
    IN  IF e = PANIC_U8 THEN PANIC ELSE Vector_set_element(v, index, (e + value) % 2)

\* AddAssign<&Vector> for Vector: the vector after v += w, or PANIC.
Vector_add_assign(v, w) ==
    IF v.dimension # w.dimension THEN PANIC
    ELSE [v EXCEPT !.limbs = array([l \in DOMAIN v.limbs |->
                                        IF l \in DOMAIN w.limbs
                                        THEN limb_xor(v.limbs[l], w.limbs[l])
                                        ELSE v.limbs[l]])]

\* The loop of Vector::random over the indices lo..hi: (0..dimension).filter(..)
\* .for_each(|i| result.set_element(i, 1)), where `picked` holds the indices at
\* which rand::thread_rng().gen::<bool>() returned true.  The range is walked
\* in order, first half then second half.
RECURSIVE random_from(_, _, _, _)
random_from(v, lo, hi, picked) ==
    IF v = PANIC THEN PANIC
    ELSE IF lo >= hi THEN v
    ELSE IF hi - lo = 1
         THEN (IF lo \in picked THEN Vector_set_element(v, lo, 1) ELSE v)
    ELSE random_from(random_from(v, lo, (lo + hi) \div 2, picked),
                     (lo + hi) \div 2, hi, picked)

\* Vector::random
Vector_random(dimension, picked) ==
    random_from(Vector_zeroes(dimension), 0, dimension, picked)

\* From<u32> for Vector: limbs = vec![value as u64], dimension 32.
Vector_from_u32(value) ==
    LET b == bits(value)
    IN  [dimension |-> 32,
         limbs |-> array([l \in 0..0 |-> array([j \in 0..63 |-> IF j < 32 THEN b[j] ELSE 0])])]

\* TryInto<u32> for Vector: [ok, value], value = limbs[0] as u32.
Vector_try_into_u32(v) ==
    IF v.dimension = 32
    THEN [ok |-> TRUE, value |-> word([i \in 0..31 |-> v.limbs[0][i]])]
    ELSE [ok |-> FALSE, value |-> "ConversionError"]

\* Vector::ones: every limb 0xffffffff_ffffffff, then the last limb &= mask with
\* mask = (1 << (dimension & 63)) - 1: bit j of mask is 1 exactly for
\* j < dimension & 63, so mask is 0 when dimension is a multiple of 64.
Vector_ones(dimension) ==
    [dimension |-> dimension,
     limbs |-> array([l \in 0..(limb_count(dimension) - 1) |->
                  array([j \in 0..63 |->
                      IF l = limb_count(dimension) - 1
                      THEN (IF j < dimension % 64 THEN 1 ELSE 0)
                      ELSE 1])])]

\* Add<Vector> for Vector and Add<&Vector> for &Vector: v + w, or PANIC.  The
\* limbs are those of self.limbs.iter().zip(other.limbs.iter()).
Vector_add(v, w) ==
    IF v.dimension # w.dimension THEN PANIC
    ELSE [dimension |-> v.dimension,
          limbs |-> array([l \in (DOMAIN v.limbs) \cap (DOMAIN w.limbs) |->
                               limb_xor(v.limbs[l], w.limbs[l])])]

\* The widths of the unsigned integers a Vector converts from and to.
Widths == {8, 16, 32, 64, 128}

\* A conversion that keeps only the low limb of a u128.
Vector_from_low_limb(width, b) ==
    [dimension |-> width,
     limbs |-> array([l \in 0..(limb_count(width) - 1) |->
                  array([j \in 0..63 |-> IF l = 0 /\ j < width THEN b[j] ELSE 0])])]

\* From<u8>, From<u16>, From<u32>, From<u64>, From<u128> for Vector, on the
\* bit array b (on 0..width-1) of the value: limbs = vec![value as u64], and
\* vec![(value & 0xffffffff_ffffffff) as u64, (value >> 64) as u64] for u128.
Vector_from_uint(width, b) ==
    [dimension |-> width,
     limbs |-> IF width = 128
               THEN array([l \in 0..1 |-> array([j \in 0..63 |-> b[64 * l + j]])])
               ELSE array([l \in 0..0 |-> array([j \in 0..63 |->
                                                    IF j < width THEN b[j] ELSE 0])])]

\* A conversion that truncates a longer vector instead of refusing it.
Vector_try_into_truncating(width, v) ==
    IF v.dimension < width THEN [ok |-> FALSE, value |-> "ConversionError"]
    ELSE [ok |-> TRUE, value |-> array([j \in 0..(width - 1) |-> v.limbs[j \div 64][j % 64]])]

\* TryInto<u8>, ..., TryInto<u128> for Vector: [ok, value] with value the bit
\* array of self.limbs[0] as uN (limbs[0] | limbs[1] << 64 for u128), or PANIC
\* when a limb it reads does not exist.
Vector_try_into_uint(width, v) ==
    IF v.dimension # width THEN [ok |-> FALSE, value |-> "ConversionError"]
    ELSE IF \E j \in 0..(width - 1) : (j \div 64) \notin DOMAIN v.limbs THEN PANIC
    ELSE [ok |-> TRUE, value |-> array([j \in 0..(width - 1) |-> v.limbs[j \div 64][j % 64]])]

(************************ Matrix (linear_algebra.rs) ***********************)

\* Matrix::zeroes
Matrix_zeroes(rows, columns) ==
    [dimensions |-> <<rows, columns>>,
     rows |-> array([r \in 0..(rows - 1) |-> Vector_zeroes(columns)])]

\* Matrix::ones: vec![Vector::ones(columns); rows]
Matrix_ones(rows, columns) ==
    [dimensions |-> <<rows, columns>>,
     rows |-> array([r \in 0..(rows - 1) |-> Vector_ones(columns)])]

\* Matrix::random: vec![Vector::random(columns); rows], one random vector cloned
\* into every row; `picked` holds the indices at which its coin returned true.
Matrix_random(rows, columns, picked) ==
    [dimensions |-> <<rows, columns>>,
     rows |-> array([r \in 0..(rows - 1) |-> Vector_random(columns, picked)])]

\* Matrix::get_element
Matrix_get_element(m, row, col) ==
    IF row \notin DOMAIN m.rows THEN PANIC_U8 ELSE Vector_get_element(m.rows[row], col)

\* Matrix::set_element
Matrix_set_element(m, row, col, value) ==
    IF row \notin DOMAIN m.rows THEN PANIC
    ELSE LET v == Vector_set_element(m.rows[row], col, value)
         IN  IF v = PANIC THEN PANIC ELSE [m EXCEPT !.rows[row] = v]

\* m.set_element(row, column, 1) for every <<row, column>> of `cells`, taken row
\* by row from the k-th cell on.
RECURSIVE set_cells(_, _, _)
set_cells(m, k, cells) ==
    IF m = PANIC THEN PANIC
    ELSE IF k >= m.dimensions[1] * m.dimensions[2] THEN m
    ELSE IF <<k \div m.dimensions[2], k % m.dimensions[2]>> \in cells
    THEN set_cells(Matrix_set_element(m, k \div m.dimensions[2], k % m.dimensions[2], 1),
                   k + 1, cells)
    ELSE set_cells(m, k + 1, cells)

\* The rows x columns matrix whose 1 elements are `cells`: Matrix::zeroes, then
\* Matrix::set_element.
Matrix_with(rows, columns, cells) == set_cells(Matrix_zeroes(rows, columns), 0, cells)

\* (0..dimension).for_each(|i| result.set_element(i, i, 1)) from index i on.
RECURSIVE diagonal_from(_, _, _)
diagonal_from(m, i, dimension) ==
    IF i >= dimension THEN m
    ELSE LET n == Matrix_set_element(m, i, i, 1)
         IN  IF n = PANIC THEN PANIC ELSE diagonal_from(n, i + 1, dimension)

\* Matrix::diagonal
Matrix_diagonal(dimension) == diagonal_from(Matrix_zeroes(dimension, dimension), 0, dimension)

\* Matrix::add_to_element
Matrix_add_to_element(m, row, col, value) ==
    IF row \notin DOMAIN m.rows THEN PANIC
    ELSE LET v == Vector_add_to_element(m.rows[row], col, value)
         IN  IF v = PANIC THEN PANIC ELSE [m EXCEPT !.rows[row] = v]

\* Matrix::set_row: self.rows[row] = value
Matrix_set_row(m, row, value) ==
    IF row \notin DOMAIN m.rows THEN PANIC ELSE [m EXCEPT !.rows[row] = value]

\* Matrix::get_row
Matrix_get_row(m, row) == IF row \notin DOMAIN m.rows THEN PANIC ELSE m.rows[row]

\* Matrix::swap_rows (Vec::swap)
Matrix_swap_rows(m, first, second) ==
    IF first \notin DOMAIN m.rows \/ second \notin DOMAIN m.rows THEN PANIC
    ELSE [m EXCEPT !.rows = [@ EXCEPT ![first] = m.rows[second], ![second] = m.rows[first]]]

\* Matrix::add_to_row
Matrix_add_to_row(m, row, value) ==
    IF row \notin DOMAIN m.rows THEN PANIC
    ELSE LET v == Vector_add_assign(m.rows[row], value)
         IN  IF v = PANIC THEN PANIC ELSE [m EXCEPT !.rows[row] = v]

\* AddAssign<Matrix> for Matrix: a += b, or PANIC.
Matrix_add_assign(a, b) ==
    IF a.dimensions # b.dimensions THEN PANIC
    ELSE LET both == (DOMAIN a.rows) \cap (DOMAIN b.rows)
         IN  IF \E r \in both : a.rows[r].dimension # b.rows[r].dimension THEN PANIC
             ELSE [a EXCEPT !.rows = array([r \in DOMAIN a.rows |->
                        IF r \in both THEN Vector_add_assign(a.rows[r], b.rows[r])
                                      ELSE a.rows[r]])]

\* What a += b leaves in a, panic or not: the assert_eq! on the dimensions
\* comes before any change, then *v += w runs row by row, so the rows before
\* the first one whose Vector += panics are already added.
Matrix_add_assign_left(a, b) ==
    IF a.dimensions # b.dimensions THEN a
    ELSE [a EXCEPT !.rows = array([r \in DOMAIN a.rows |->
              IF /\ r \in DOMAIN b.rows
                 /\ \A q \in 0..r : q \in DOMAIN b.rows
                                     /\ a.rows[q].dimension = b.rows[q].dimension
              THEN Vector_add_assign(a.rows[r], b.rows[r])
              ELSE a.rows[r]])]

\* Add<Matrix> for Matrix and Add<&Matrix> for &Matrix: a + b, or PANIC.
Matrix_add(a, b) ==
    IF a.dimensions # b.dimensions THEN PANIC
    ELSE LET both == (DOMAIN a.rows) \cap (DOMAIN b.rows)
         IN  IF \E r \in both : a.rows[r].dimension # b.rows[r].dimension THEN PANIC
             ELSE [dimensions |-> a.dimensions,
                   rows |-> array([r \in both |-> Vector_add(a.rows[r], b.rows[r])])]

\* A shift count is a usize.  The counts of the model are the small naturals and
\* the largest ones: a negative integer n stands for 2^64 + n, so that
\* usize::MAX is -1.  Row indices are small naturals.
usize_MAX == 0 - 1

\* i + rhs overflows a usize (i a row index).
usize_add_overflows(i, rhs) == rhs < 0 /\ i + rhs >= 0

\* Shl<usize> for Matrix and for &Matrix: shifts each row down by rhs rows
\* (i >= rhs is false for the largest counts).
Matrix_shl(m, rhs) ==
    [dimensions |-> m.dimensions,
     rows |-> array([i \in 0..(m.dimensions[1] - 1) |->
                        IF rhs >= 0 /\ i >= rhs THEN m.rows[i - rhs]
                                                ELSE Vector_zeroes(m.dimensions[2])])]

\* A faulty Shr<usize> that shifts one row too far.
Matrix_shr_too_far(m, rhs) ==
    [dimensions |-> m.dimensions,
     rows |-> array([i \in 0..(m.dimensions[1] - 1) |->
                        IF i + rhs + 1 < m.dimensions[1] THEN m.rows[i + rhs + 1]
                                                         ELSE Vector_zeroes(m.dimensions[2])])]

\* Shr<usize> for Matrix and for &Matrix: shifts each row up by rhs rows, or
\* PANIC.  i + rhs is a usize addition: when it overflows, a build with overflow
\* checks (the dev profile, which also has the debug assertions) panics and a
\* build without them (the release profile) wraps, to i + rhs - 2^64.
Matrix_shr(m, rhs) ==
    IF debug_assertions /\ \E i \in 0..(m.dimensions[1] - 1) : usize_add_overflows(i, rhs)
    THEN PANIC
    ELSE [dimensions |-> m.dimensions,
          rows |-> array([i \in 0..(m.dimensions[1] - 1) |->
                        IF i + rhs >= 0 /\ i + rhs < m.dimensions[1]
                        THEN m.rows[i + rhs]
                        ELSE Vector_zeroes(m.dimensions[2])])]

\* BitAnd<Vector> for Matrix: keeps row i where rhs has a 1; the zero row it
\* puts elsewhere is Vector::zeroes(self.dimensions.0).
Matrix_bitand(m, rhs) ==
    IF m.dimensions[1] # rhs.dimension THEN PANIC
    ELSE IF \E i \in 0..(m.dimensions[1] - 1) : Vector_get_element(rhs, i) = PANIC_U8 THEN PANIC
    ELSE [dimensions |-> m.dimensions,
          rows |-> array([i \in 0..(m.dimensions[1] - 1) |->
                        IF Vector_get_element(rhs, i) = 1 THEN m.rows[i]
                                                          ELSE Vector_zeroes(m.dimensions[1])])]

(******************* GaussElimination (linear_algebra.rs) ******************)

\* GaussElimination::new
GaussElimination_new(lhs, rhs) ==
    IF lhs.dimensions[1] # rhs.dimension THEN PANIC ELSE [lhs |-> lhs, rhs |-> rhs]

\* A faulty pivot loop that reports Ok for a column without a pivot.
RECURSIVE pivot_from_lenient(_, _, _)
pivot_from_lenient(s, col, row) ==
    IF row >= s.lhs.dimensions[1] THEN [res |-> "Ok", sys |-> s]
    ELSE LET e == Matrix_get_element(s.lhs, row, col)
         IN  IF e = PANIC_U8 THEN [res |-> "Panic", sys |-> s]
             ELSE IF e # 0
             THEN LET l == Matrix_swap_rows(s.lhs, col, row)
                      r == Vector_swap_elements(s.rhs, col, row)
                  IN  IF l = PANIC \/ r = PANIC THEN [res |-> "Panic", sys |-> s]
                      ELSE [res |-> "Ok", sys |-> [lhs |-> l, rhs |-> r]]
             ELSE pivot_from_lenient(s, col, row + 1)

\* A faulty pivot loop over column..=self.lhs.dimensions.0.
RECURSIVE pivot_from_inclusive(_, _, _)
pivot_from_inclusive(s, col, row) ==
    IF row > s.lhs.dimensions[1] THEN [res |-> "UnderDeterminedSystemError", sys |-> s]
    ELSE LET e == Matrix_get_element(s.lhs, row, col)
         IN  IF e = PANIC_U8 THEN [res |-> "Panic", sys |-> s]
             ELSE IF e # 0
             THEN LET l == Matrix_swap_rows(s.lhs, col, row)
                      r == Vector_swap_elements(s.rhs, col, row)
                  IN  IF l = PANIC \/ r = PANIC THEN [res |-> "Panic", sys |-> s]
                      ELSE [res |-> "Ok", sys |-> [lhs |-> l, rhs |-> r]]
             ELSE pivot_from_inclusive(s, col, row + 1)

\* The loop of pivot from `row` on: for row in column..self.lhs.dimensions.0.
\* [res, sys]: res is "Ok", "UnderDeterminedSystemError" or "Panic".
RECURSIVE pivot_from(_, _, _)
pivot_from(s, col, row) ==
    IF row >= s.lhs.dimensions[1] THEN [res |-> "UnderDeterminedSystemError", sys |-> s]
    ELSE LET e == Matrix_get_element(s.lhs, row, col)
         IN  IF e = PANIC_U8 THEN [res |-> "Panic", sys |-> s]
             ELSE IF e # 0
             THEN LET l == Matrix_swap_rows(s.lhs, col, row)
                      r == Vector_swap_elements(s.rhs, col, row)
                  IN  IF l = PANIC \/ r = PANIC THEN [res |-> "Panic", sys |-> s]
                      ELSE [res |-> "Ok", sys |-> [lhs |-> l, rhs |-> r]]
             ELSE pivot_from(s, col, row + 1)

\* A faulty pivot that reports success on a column without a 1.
pivot_lenient(s, col) == pivot_from_lenient(s, col, col)

\* GaussElimination::pivot
pivot(s, col) == pivot_from(s, col, col)

\* A faulty inner loop that eliminates only in the rows below the pivot.
RECURSIVE eliminate_below(_, _, _, _, _)
eliminate_below(s, col, current_row, current_element, row) ==
    IF row >= s.lhs.dimensions[1] THEN s
    ELSE IF row <= col THEN eliminate_below(s, col, current_row, current_element, row + 1)
    ELSE LET e == Matrix_get_element(s.lhs, row, col)
         IN  IF e = PANIC_U8 THEN PANIC
             ELSE IF e = 1
             THEN LET l == Matrix_add_to_row(s.lhs, row, current_row)
                      r == Vector_add_to_element(s.rhs, row, current_element)
                  IN  IF l = PANIC \/ r = PANIC THEN PANIC
                      ELSE eliminate_below([lhs |-> l, rhs |-> r], col,
                                           current_row, current_element, row + 1)
             ELSE eliminate_below(s, col, current_row, current_element, row + 1)

\* The inner loop of solve from `row` on: for row in 0..self.lhs.dimensions.0.
\* The solver after the loop, or PANIC.
RECURSIVE eliminate_from(_, _, _, _, _)
eliminate_from(s, col, current_row, current_element, row) ==
    IF row >= s.lhs.dimensions[1] THEN s
    ELSE IF row = col THEN eliminate_from(s, col, current_row, current_element, row + 1)
    ELSE LET e == Matrix_get_element(s.lhs, row, col)
         IN  IF e = PANIC_U8 THEN PANIC
             ELSE IF e = 1
             THEN LET l == Matrix_add_to_row(s.lhs, row, current_row)
                      r == Vector_add_to_element(s.rhs, row, current_element)
                  IN  IF l = PANIC \/ r = PANIC THEN PANIC
                      ELSE eliminate_from([lhs |-> l, rhs |-> r], col,
                                          current_row, current_element, row + 1)
             ELSE eliminate_from(s, col, current_row, current_element, row + 1)

\* What the inner loop of solve left: [res, sys].
eliminated(t, s) ==
    IF t = PANIC THEN [res |-> "Panic", sys |-> s] ELSE [res |-> "Ok", sys |-> t]

\* The body of the outer loop of solve after pivot(column)? returned p.
after_pivot(p, col, current_row, current_element) ==
    IF p.res # "Ok" THEN p
    ELSE IF current_row = PANIC \/ current_element = PANIC_U8
    THEN [res |-> "Panic", sys |-> p.sys]
    ELSE eliminated(eliminate_from(p.sys, col, current_row, current_element, 0), p.sys)

\* let current_row = self.lhs.get_row(column), where pivot returned p.
pivot_row(p, col) == IF p.res # "Ok" THEN PANIC ELSE Matrix_get_row(p.sys.lhs, col)

\* A faulty read of the pivot's right-hand side that always gives 0.
pivot_element_zero(p, col) == IF p.res # "Ok" THEN PANIC_U8 ELSE 0

\* let current_element = self.rhs.get_element(column), where pivot returned p.
pivot_element(p, col) ==
    IF p.res # "Ok" THEN PANIC_U8 ELSE Vector_get_element(p.sys.rhs, col)

\* One iteration of the outer loop of solve on the outcome p of pivot(column).
solve_pivoted(p, col) == after_pivot(p, col, pivot_row(p, col), pivot_element(p, col))

\* A faulty iteration of the outer loop that pivots and leaves out the inner loop.
solve_column_pivot_only(s, col) == pivot(s, col)

\* One iteration of the outer loop of solve: pivot(column)?, then the inner loop.
\* [res, sys]: res is "Ok", "UnderDeterminedSystemError" or "Panic".
solve_column(s, col) == solve_pivoted(pivot(s, col), col)

\* A faulty consistency loop that accepts every right-hand side.
scan_from_accepting(s, row) == [res |-> "Ok", value |-> s.rhs]

\* The consistency loop of solve from `row` on, and its return value:
\* for row in self.lhs.dimensions.1..self.lhs.dimensions.0.
RECURSIVE scan_from(_, _)
scan_from(s, row) ==
    IF row >= s.lhs.dimensions[1] THEN [res |-> "Ok", value |-> s.rhs]
    ELSE LET e == Vector_get_element(s.rhs, row)
         IN  IF e = PANIC_U8 THEN [res |-> "Panic", value |-> "Panic"]
             ELSE IF e # 0
             THEN [res |-> "InconsistentSystemError", value |-> "InconsistentSystemError"]
             ELSE scan_from(s, row + 1)

\* A faulty consistency loop that starts one row late.
scan_late(s) == scan_from(s, s.lhs.dimensions[2] + 1)

\* The end of solve, once every column is done: [res, value].
scan(s) == scan_from(s, s.lhs.dimensions[2])

\* A faulty end of solve that moves rhs out of the solver instead of cloning it.
scanned_taking(c, s) ==
    [res |-> c.res, value |-> c.value,
     sys |-> [lhs |-> s.lhs, rhs |-> Vector_zeroes(s.rhs.dimension)]]

\* [res, value, sys] of a solve that ended in the consistency loop.
scanned(c, s) == [res |-> c.res, value |-> c.value, sys |-> s]

\* GaussElimination::solve from column `col` on: [res, value, sys].
RECURSIVE solve_from(_, _)
RECURSIVE solve_next(_, _)
solve_from(s, col) ==
    IF col >= s.lhs.dimensions[2] THEN scanned(scan(s), s)
    ELSE solve_next(solve_column(s, col), col)
solve_next(r, col) ==
    IF r.res # "Ok" THEN [res |-> r.res, value |-> r.res, sys |-> r.sys]
    ELSE solve_from(r.sys, col + 1)

\* GaussElimination::solve
solve(s) == solve_from(s, 0)

(********************** recover_state_from (attacks/random.rs) *************)

\* a += b on matrices either of which may already have panicked.
add_assign_or_panic(a, b) == IF a = PANIC \/ b = PANIC THEN PANIC ELSE Matrix_add_assign(a, b)

\* lhs += &lhs >> k;
accumulate_shr(lhs, k) ==
    add_assign_or_panic(lhs, IF lhs = PANIC THEN PANIC ELSE Matrix_shr(lhs, k))

\* The shifted rows added without the mask.
accumulate_shl_unmasked(lhs, k, mask) ==
    add_assign_or_panic(lhs, IF lhs = PANIC THEN PANIC ELSE Matrix_shl(lhs, k))

\* lhs += (&lhs << k) & Vector::from(mask);
accumulate_shl(lhs, k, mask) ==
    add_assign_or_panic(lhs, IF lhs = PANIC THEN PANIC
                             ELSE Matrix_bitand(Matrix_shl(lhs, k), Vector_from_u32(mask)))

\* The lhs recover_state_from builds from Matrix::diagonal(32).
tempering_matrix ==
    accumulate_shr(
        accumulate_shl(
            accumulate_shl(
                accumulate_shr(Matrix_diagonal(32), 11),
                7, FIRST_MASK),
            15, SECOND_MASK),
        18)

\* GaussElimination::new(lhs, rhs).solve(): [res, value, sys], res "Panic" included.
new_and_solve(lhs, rhs) ==
    IF lhs = PANIC \/ lhs.dimensions[1] # rhs.dimension THEN [res |-> "Panic"]
    ELSE solve(GaussElimination_new(lhs, rhs))

\* .and_then(|solution| solution.try_into()).map_err(Error::from) on Ok(x.value).
recovered_word(x) == IF x.ok THEN x ELSE [ok |-> FALSE, value |-> "RecoveryError"]

\* The end of recover_state_from on what solve returned.
recover_result(sol) ==
    IF sol.res = "Panic" THEN PANIC
    ELSE IF sol.res # "Ok" THEN [ok |-> FALSE, value |-> "RecoveryError"]
    ELSE recovered_word(Vector_try_into_u32(sol.value))

\* recover_state_from: [ok |-> TRUE, value |-> the u32], [ok |-> FALSE,
\* value |-> "RecoveryError"], or PANIC.
recover_state_from(output) ==
    recover_result(new_and_solve(tempering_matrix, Vector_from_u32(output)))

(******************************* Bounds ************************************)

MaxSeed      == 2    \* seeds 1..MaxSeed
MaxAfter     == 3    \* next_u32 calls on both generators after the splice
MaxProbe     == 63   \* probe words beyond the 32 one-bit words
MaxRows      == 4    \* rows of an arbitrary system
MaxColumns   == 4    \* columns of an arbitrary system
MaxCells     == 9    \* rows * columns of an arbitrary system
MaxStepCells == 8    \* rows * columns of a system solved one column at a time
MaxN         == 2    \* size of a system built from Matrix::diagonal(n)
MaxDimension == 3    \* dimension of a Vector under element access
MaxSide      == 2    \* rows and columns of a Matrix under its operations
MaxShift     == 2    \* small shift counts of << and >>
MaxTwists    == 1    \* twist() calls made by the next_* calls on a seeded generator
MaxLen       == 2    \* length of a buffer through the stream cipher

(************************** Values of idle parts ***************************)

NoGenerator == [state |-> << >>, index |-> 0]
NoOutputs   == [orig |-> <<0, 0>>, clone |-> <<0, 0>>]
NoSystem    == [none |-> TRUE]
NoVector    == [none |-> TRUE]
NoResult    == [res |-> "None", value |-> "None"]
NoAccess    == [op |-> "none", first |-> 0, second |-> 0, panicked |-> FALSE, value |-> 0]
NoMatrix    == [none |-> TRUE]
NoMatOp     == [op |-> "none", before |-> [none |-> TRUE], arg |-> 0, panicked |-> FALSE]

MtIdle ==
    /\ mt = NoGenerator /\ clone = NoGenerator /\ recovered = << >> /\ outputs = 0
    /\ last = NoOutputs /\ twists = 0 /\ seed_value = <<0, 0>> /\ attack = "Idle"
    /\ written = {} /\ pretwist = << >>
GeIdle ==
    /\ system = NoSystem /\ given = NoSystem /\ solution = NoVector /\ pc = "Idle"
    /\ result = NoResult
VeIdle == vec = NoVector /\ access = NoAccess /\ other = NoVector
MaIdle == mat = NoMatrix /\ matop = NoMatOp
NoCall   == [op |-> "none", seed |-> <<0, 0>>, reads |-> << >>, out |-> 0, panicked |-> FALSE]
NoBuffer == [plain |-> << >>, cipher |-> << >>, decrypted |-> << >>]
StIdle == call = NoCall /\ buffer = NoBuffer
NoSecond == [res |-> "None", value |-> NoVector]
SlIdle == at_column = 0 /\ again = NoSecond
ProbeIdle == probe = [stage |-> "Idle"]

(************* Mt19337 and the state-recovery attack (set_3.rs) ************)

Seeds == {as_u32(k) : k \in 1..MaxSeed}

MtInit ==
    /\ mt = NoGenerator /\ clone = NoGenerator /\ recovered = << >> /\ outputs = 0
    /\ last = NoOutputs /\ twists = 0 /\ seed_value = <<0, 0>> /\ attack = "Unseeded"
    /\ written = {} /\ pretwist = << >>
    /\ debug_assertions = TRUE
    /\ StIdle /\ SlIdle
    /\ GeIdle /\ VeIdle /\ MaIdle /\ ProbeIdle

\* let mut random = Mt19337::new(s); let mut state = [0; 624];
New(s) ==
    /\ attack = "Unseeded"
    /\ mt' = new(s)
    /\ seed_value' = s
    /\ written' = twist_indices
    /\ pretwist' = seeded(unseeded, s).state
    /\ recovered' = array([i \in 0..(SIZE - 1) |-> <<0, 0>>])
    /\ attack' = "Drawing"
    /\ UNCHANGED <<clone, outputs, last, twists>>
    /\ UNCHANGED <<probe, debug_assertions, stvars, slvars, gevars, vevars, mavars>>

\* state[i] = recover_state_from(random.next_u32()).unwrap();
Draw ==
    /\ attack = "Drawing"
    /\ outputs < SIZE
    /\ \E r \in {next_u32(mt)} : \E w \in {recover_state_from(r.out)} :
           /\ mt' = r.gen
           /\ outputs' = outputs + 1
           /\ last' = [last EXCEPT !.orig = r.out]
           /\ twists' = IF mt.index >= SIZE THEN twists + 1 ELSE twists
           /\ written' = IF mt.index >= SIZE THEN twist_indices ELSE written
           /\ pretwist' = IF mt.index >= SIZE THEN mt.state ELSE pretwist
           /\ IF w # PANIC /\ w.ok
              THEN recovered' = [recovered EXCEPT ![outputs] = w.value] /\ attack' = attack
              ELSE recovered' = recovered /\ attack' = "Failed"
    /\ UNCHANGED <<clone, seed_value>>
    /\ UNCHANGED <<probe, debug_assertions, stvars, slvars, gevars, vevars, mavars>>

\* Mt19337::from_state(state, 624), once the loop over 0..624 has ended.
Splice ==
    /\ attack = "Drawing"
    /\ outputs = SIZE
    /\ clone' = from_state(recovered, SIZE)
    /\ attack' = "Hijacked"
    /\ UNCHANGED <<mt, recovered, outputs, last, twists, seed_value, written, pretwist>>
    /\ UNCHANGED <<probe, debug_assertions, stvars, slvars, gevars, vevars, mavars>>

\* One more next_u32 on the original and on the rebuilt generator.
Step ==
    /\ attack = "Hijacked"
    /\ outputs < SIZE + MaxAfter
    /\ \E r \in {next_u32(mt)} : \E c \in {next_u32(clone)} :
           /\ mt' = r.gen
           /\ clone' = c.gen
           /\ last' = [orig |-> r.out, clone |-> c.out]
           /\ outputs' = outputs + 1
           /\ twists' = IF mt.index >= SIZE THEN twists + 1 ELSE twists
           /\ written' = IF mt.index >= SIZE THEN twist_indices ELSE written
           /\ pretwist' = IF mt.index >= SIZE THEN mt.state ELSE pretwist
    /\ UNCHANGED <<recovered, seed_value, attack>>
    /\ UNCHANGED <<probe, debug_assertions, stvars, slvars, gevars, vevars, mavars>>

MtNext == (\E s \in Seeds : New(s)) \/ Draw \/ Splice \/ Step

SpecMt == MtInit /\ [][MtNext]_vars

\* The words of known_output (tests of crypto/random.rs) as <<hi, lo>>.
Golden ==
    <<  <<27329, 62501>>,   \* 0x6ac1f425
        <<65351, 33003>>,   \* 0xff4780eb
        <<47207, 12172>>,   \* 0xb8672f8c
        <<61116,  5192>>,   \* 0xeebc1448
        <<    7, 32511>>,   \* 0x00077eff
        <<8396,  50057>>,   \* 0x20ccc389
        <<19813, 43723>>,   \* 0x4d65aacb
        <<65473,  7813>> >> \* 0xffc11e85

\* C2: every one of the 624 recoveries succeeds, and the generator rebuilt by
\* from_state(w, 624) from the recovered words equals the original after its
\* 624 draws (all state words, and the index, 624 on both); from then on both
\* return the same word at every next_u32.
C2_RebuiltGeneratorIsTheOriginal ==
    /\ attack # "Failed"
    /\ attack = "Hijacked" =>
           /\ eq(mt, clone)
           /\ mt.state = clone.state /\ mt.index = clone.index
           /\ outputs = SIZE => mt.index = SIZE /\ clone.index = SIZE
           /\ outputs > SIZE => last.orig = last.clone

\* C2: the rebuilt generator has run past its first twist next to the original.
C2_Witness ==
    /\ attack = "Hijacked" /\ outputs = SIZE + MaxAfter /\ twists = 1
    /\ last.orig = last.clone /\ eq(mt, clone) /\ mt.index = MaxAfter

\* The recurrence of the reference MT19937 at index i, in place:
\* state[i] = state[(i + 397) mod 624] ^ (x >> 1) ^ (0x9908b0df if x is odd),
\* x = (state[i] & 0x80000000) | (state[(i + 1) mod 624] & 0x7fffffff).
reference_at(state, i) ==
    LET x == or(and(bits(state[i]), bits(<<32768, 0>>)),
                and(bits(state[(i + 1) % SIZE]), bits(<<32767, 65535>>)))
    IN  [state EXCEPT ![i] =
            word(xor(xor(bits(state[(i + 397) % SIZE]), shr(x, 1)),
                     IF x[0] = 1 THEN bits(<<39176, 45279>>) ELSE bits(<<0, 0>>)))]

\* The reference recurrence at the indices lo..hi-1, in increasing order.
RECURSIVE reference_from(_, _, _)
reference_from(state, lo, hi) ==
    IF lo >= hi THEN state
    ELSE IF hi - lo = 1 THEN reference_at(state, lo)
    ELSE LET mid  == (lo + hi) \div 2
             done == reference_from(state, lo, mid)
         IN  IF DOMAIN done = {} THEN done ELSE reference_from(done, mid, hi)

\* C3: twist() applies the reference MT19937 recurrence at every index
\* 0..623, in increasing order and in place: the state after a twist is the
\* reference recurrence applied to the state before it.
C3_TwistIsTheReferenceRecurrence ==
    attack \in {"Drawing", "Hijacked"} => mt.state = reference_from(pretwist, 0, SIZE)

\* C4: one call of twist() assigns every one of the 624 state words.
C4_TwistAssignsEveryWord ==
    attack \in {"Drawing", "Hijacked"} => written = 0..(SIZE - 1)

\* C5: the first eight next_u32 outputs of Mt19337::new(1) are the eight words
\* of Golden, in that order.
C5_KnownOutput ==
    (attack = "Drawing" /\ seed_value = <<0, 1>> /\ outputs \in 1..Len(Golden))
        => last.orig = Golden[outputs]

\* C5: the eighth output of Mt19337::new(1) has been drawn.
C5_Witness ==
    /\ attack = "Drawing" /\ seed_value = <<0, 1>> /\ outputs = Len(Golden)
    /\ last.orig = <<65473, 7813>>

\* C20: seed(value) sets state[0] = value and, for i = 1..623, state[i] =
\* (0x6c078965 * (state[i-1] XOR (state[i-1] >> 30)) + i) mod 2^32, then runs
\* exactly one twist and leaves index = 0.
C20_SeedFillsThenTwistsOnce ==
    (attack = "Drawing" /\ outputs = 0)
        => /\ DOMAIN pretwist = 0..(SIZE - 1)
           /\ pretwist[0] = seed_value
           /\ \A i \in 1..(SIZE - 1) :
                  \A p \in {bits(pretwist[i - 1])} :
                      pretwist[i] = wrapping_add(
                                        wrapping_mul(<<27655, 35173>>, word(xor(p, shr(p, 30)))),
                                        as_u32(i))
           /\ mt.state = twist_state(pretwist)
           /\ mt.index = 0

\* C20: a generator seeded with 2 that has not been drawn from.
C20_Witness ==
    /\ attack = "Drawing" /\ outputs = 0
    /\ seed_value = <<0, 2>>
    /\ pretwist[1] # <<0, 0>>
    /\ mt.state # pretwist
    /\ mt.index = 0

\* C21: from a freshly seeded generator, next_u32 twists exactly when index >=
\* 624 at the start of the call, before it reads: after n >= 1 calls twist has
\* run (n - 1) div 624 times (once before output 624k + 1), the index has
\* advanced by one per call from the 0 a twist leaves, the state is the one
\* the last twist produced (compared after the first and the last call of
\* each run of 624), and the word returned is temper(state[index]) for the
\* index the call read.
C21_TwistsWhenExhausted ==
    (attack \in {"Drawing", "Hijacked"} /\ outputs >= 1)
        => /\ twists = (outputs - 1) \div SIZE
           /\ mt.index = ((outputs - 1) % SIZE) + 1
           /\ (outputs % SIZE \in {0, 1} => mt.state = twist_state(pretwist))
           /\ last.orig = temper(mt.state[mt.index - 1])

\* C21: the 625th call found index = 624, twisted and read word 0.
C21_Witness ==
    /\ attack = "Hijacked" /\ outputs = SIZE + 1
    /\ twists = 1 /\ mt.index = 1
    /\ last.orig = temper(mt.state[0])

(***************************************************************************)
(* SpecCalls: a generator is created by new, then used through seed,       *)
(* next_u8, next_u16, next_u32 and next_u64 in any order, and as a stream  *)
(* cipher.  twists counts the twist() calls since the last seed.           *)
(***************************************************************************)

\* The values of index at which the runs re-seed the generator.
ReseedAt == {1, 2, SIZE}

\* The bytes of the buffers encrypted: 0x00 (PLAINTEXT of the tests), 0x25 and 0xff.
Bytes == {0, 37, 255}

\* PLAINTEXT and CIPHERTEXT of the tests of crypto/random.rs.
PLAINTEXT == [i \in 0..7 |-> 0]
CIPHERTEXT == [i \in 0..7 |-> <<37, 235, 140, 72, 255, 137, 203, 133>>[i + 1]]

\* The buffers encrypted: every buffer of at most MaxLen bytes, and PLAINTEXT.
Buffers == UNION {[0..(n - 1) -> Bytes] : n \in 0..MaxLen} \cup {PLAINTEXT}

CallsInit ==
    /\ mt = NoGenerator /\ clone = NoGenerator /\ recovered = << >> /\ outputs = 0
    /\ last = NoOutputs /\ twists = 0 /\ seed_value = <<0, 0>> /\ attack = "Unseeded"
    /\ written = {} /\ pretwist = << >>
    /\ call = NoCall /\ buffer = NoBuffer
    /\ debug_assertions = TRUE
    /\ GeIdle /\ VeIdle /\ MaIdle /\ ProbeIdle /\ SlIdle

\* The generator and the record of the call after a next_* call returned r,
\* with `twisted` twist() calls made in it.
Called(op, r, twisted) ==
    /\ mt' = r.gen
    /\ call' = [op |-> op, seed |-> seed_value, reads |-> r.read, out |-> r.out,
                panicked |-> r.panicked]
    /\ twists' = twists + twisted
    /\ attack' = IF r.panicked THEN "Failed" ELSE attack
    /\ UNCHANGED <<clone, recovered, outputs, last, seed_value, written, pretwist, buffer>>
    /\ UNCHANGED <<probe, debug_assertions, gevars, vevars, mavars, slvars>>

\* The runs stop a few calls after the last twist they allow.
MayCall == attack = "Seeded" /\ (twists < MaxTwists \/ mt.index < MaxAfter)

\* let mut random = Mt19337::new(s);
CallNew(s) ==
    /\ attack = "Unseeded"
    /\ mt' = new(s)
    /\ seed_value' = s
    /\ call' = [NoCall EXCEPT !.op = "new", !.seed = s]
    /\ attack' = "Seeded"
    /\ UNCHANGED <<clone, recovered, outputs, last, twists, written, pretwist, buffer>>
    /\ UNCHANGED <<probe, debug_assertions, gevars, vevars, mavars, slvars>>

\* random.seed(s);
CallSeed(s) ==
    /\ attack = "Seeded" /\ mt.index \in ReseedAt
    /\ mt' = seed(mt, s)
    /\ seed_value' = s
    /\ call' = [NoCall EXCEPT !.op = "seed", !.seed = s]
    /\ twists' = 0
    /\ UNCHANGED <<clone, recovered, outputs, last, attack, written, pretwist, buffer>>
    /\ UNCHANGED <<probe, debug_assertions, gevars, vevars, mavars, slvars>>

\* random.next_u8();
CallNextU8 ==
    /\ MayCall
    /\ \E r \in {next_u8(mt)} :
           Called("next_u8", [r EXCEPT !.read = <<@>>], IF mt.index >= SIZE THEN 1 ELSE 0)

\* random.next_u16();
CallNextU16 ==
    /\ MayCall
    /\ \E r \in {next_u16(mt)} :
           Called("next_u16", [r EXCEPT !.read = <<@>>], IF mt.index >= SIZE THEN 1 ELSE 0)

\* random.next_u32();
CallNextU32 ==
    /\ MayCall
    /\ \E r \in {next_u32(mt)} :
           Called("next_u32", [r EXCEPT !.read = <<@>>], IF mt.index >= SIZE THEN 1 ELSE 0)

\* random.next_u64();
CallNextU64 ==
    /\ MayCall
    /\ \E r \in {next_u64(mt)} :
           Called("next_u64", r, IF mt.index >= SIZE - 1 THEN 1 ELSE 0)

\* let ciphertext = random.encrypt_buffer(&b).unwrap();  on the generator as
\* new left it
EncryptBuffer ==
    /\ attack = "Seeded" /\ call.op = "new"
    /\ \E b \in Buffers : \E r \in {encrypt_buffer(mt, b)} :
           /\ mt' = r.gen
           /\ buffer' = [plain |-> b, cipher |-> r.out, decrypted |-> << >>]
           /\ call' = [call EXCEPT !.op = "encrypt_buffer", !.panicked = r.panicked]
    /\ attack' = "Encrypted"
    /\ UNCHANGED <<clone, recovered, outputs, last, twists, seed_value, written, pretwist>>
    /\ UNCHANGED <<probe, debug_assertions, gevars, vevars, mavars, slvars>>

\* let mut random = Mt19337::new(s); random.decrypt_buffer(&ciphertext).unwrap();
\* with the seed of the encryption
DecryptBuffer ==
    /\ attack = "Encrypted" /\ ~call.panicked
    /\ \E r \in {decrypt_buffer(new(seed_value), buffer.cipher)} :
           /\ mt' = r.gen
           /\ buffer' = [buffer EXCEPT !.decrypted = r.out]
           /\ call' = [call EXCEPT !.op = "decrypt_buffer", !.panicked = r.panicked]
    /\ attack' = "Decrypted"
    /\ UNCHANGED <<clone, recovered, outputs, last, twists, seed_value, written, pretwist>>
    /\ UNCHANGED <<probe, debug_assertions, gevars, vevars, mavars, slvars>>

CallsNext ==
    \/ \E s \in Seeds : CallNew(s)
    \/ \E s \in Seeds : CallSeed(s)
    \/ CallNextU8
    \/ CallNextU16
    \/ CallNextU32
    \/ CallNextU64
    \/ EncryptBuffer
    \/ DecryptBuffer

SpecCalls == CallsInit /\ [][CallsNext]_vars

\* C22: for a generator created by new or seed, after any sequence of seed,
\* next_u8, next_u16, next_u32 and next_u64 calls the index is within 0..=624
\* and no call read state at an index >= 624 (such a read would panic).
C22_IndexStaysInRange ==
    attack \in {"Seeded", "Failed"}
        => /\ mt.index \in 0..SIZE
           /\ ~call.panicked
           /\ \A k \in DOMAIN call.reads : call.reads[k] \in 0..(SIZE - 1)

\* C22: a next_u64 read the last word, twisted, and read the first word.
C22_Witness ==
    /\ attack = "Seeded" /\ call.op = "next_u64" /\ ~call.panicked
    /\ call.reads = <<SIZE - 1, 0>>
    /\ twists = 1 /\ mt.index = 1

\* C29: a generator in use was re-seeded with seed 2.
C29_Witness ==
    /\ call.op = "seed" /\ call.seed = <<0, 2>>
    /\ mt.index = 0 /\ twists = 0
    /\ eq(mt, new(<<0, 2>>))

\* The i-th 32-bit output (from 0) of generator g.
RECURSIVE output_at(_, _)
output_at(g, i) == IF i = 0 THEN next_u32(g).out ELSE output_at(next_u32(g).gen, i - 1)

\* C23: as a stream cipher, Mt19337 XORs byte i of the buffer with the low 8
\* bits of the i-th 32-bit output, one word per byte; encrypt_buffer and
\* decrypt_buffer are the same operation, and decrypting encrypt_buffer(b) with
\* a fresh Mt19337::new(s) returns b.  (Seed 1 takes PLAINTEXT to CIPHERTEXT.)
C23_StreamCipherRoundTrip ==
    attack \in {"Encrypted", "Decrypted"}
        => /\ ~call.panicked
           /\ DOMAIN buffer.cipher = DOMAIN buffer.plain
           /\ \A fresh \in {new(seed_value)} :
                  /\ \A i \in DOMAIN buffer.plain :
                         buffer.cipher[i] =
                             byte_xor(buffer.plain[i], output_at(fresh, i)[2] % 256)
                  /\ decrypt_buffer(fresh, buffer.plain) = encrypt_buffer(fresh, buffer.plain)
           /\ mt.index = Cardinality(DOMAIN buffer.plain)
           /\ (seed_value = <<0, 1>> /\ buffer.plain = PLAINTEXT
                   => buffer.cipher = CIPHERTEXT)
           /\ (attack = "Decrypted" => buffer.decrypted = buffer.plain)

\* C23: a two-byte buffer has been encrypted to different bytes and decrypted.
C23_Witness ==
    /\ attack = "Decrypted" /\ ~call.panicked
    /\ buffer.plain = (0 :> 37 @@ 1 :> 255)
    /\ buffer.cipher # buffer.plain
    /\ buffer.decrypted = buffer.plain

\* C29: for every generator g reached by any sequence of calls and every seed
\* s, after g.seed(s) the generator equals Mt19337::new(s), all 624 words and
\* the index, and returns the same outputs.
C29_ReseedingErasesHistory ==
    call.op = "seed"
        => \A fresh \in {new(call.seed)} :
               /\ eq(mt, fresh)
               /\ next_u32(mt) = next_u32(fresh)
               /\ next_u64(mt) = next_u64(fresh)

(************** One word through temper and recover_state_from *************)

\* The words probed: every word with a single 1 bit, and multiples of an odd word.
ProbeWords ==
    {word([j \in 0..31 |-> IF j = i THEN 1 ELSE 0]) : i \in 0..31}
        \cup {wrapping_mul(as_u32(k), <<40503, 31161>>) : k \in 0..MaxProbe}

ProbeInit ==
    /\ \E x \in ProbeWords : probe = [stage |-> "Input", x |-> x]
    /\ debug_assertions \in BOOLEAN
    /\ StIdle /\ SlIdle
    /\ MtIdle /\ GeIdle /\ VeIdle /\ MaIdle

\* The tempering next_u32 applies to the word it reads.
Temper ==
    /\ probe.stage = "Input"
    /\ probe' = [stage |-> "Tempered", x |-> probe.x, y |-> temper(probe.x)]
    /\ UNCHANGED <<mtvars, debug_assertions, stvars, slvars, gevars, vevars, mavars>>

\* recover_state_from on the tempered word.
Recover ==
    /\ probe.stage = "Tempered"
    /\ probe' = [stage |-> "Recovered", x |-> probe.x, y |-> probe.y,
                 w |-> recover_state_from(probe.y)]
    /\ UNCHANGED <<mtvars, debug_assertions, stvars, slvars, gevars, vevars, mavars>>

ProbeNext == Temper \/ Recover

SpecTemper == ProbeInit /\ [][ProbeNext]_vars

\* C1: recover_state_from(temper(x)) returns Ok(x), for every probed word x.
C1_RecoverInvertsTemper ==
    probe.stage = "Recovered" => probe.w # PANIC /\ probe.w.ok /\ probe.w.value = probe.x

\* C1: a word that tempering changes has gone through temper and recovery.
C1_Witness ==
    /\ probe.stage = "Recovered" /\ probe.x = <<40503, 31161>>
    /\ probe.y # probe.x
    /\ probe.w # PANIC /\ probe.w.ok /\ probe.w.value = probe.x

\* C16: the 32 x 32 matrix M that recover_state_from builds represents temper:
\* bit i of temper(x) is the XOR over j of M[i][j] AND bit j of x.
C16_MatrixRepresentsTemper ==
    probe.stage \in {"Tempered", "Recovered"}
        => \A M \in {tempering_matrix}, x \in {bits(probe.x)}, y \in {bits(probe.y)} :
               /\ M # PANIC
               /\ M.dimensions = <<32, 32>>
               /\ \A i \in 0..31 :
                      y[i] = Cardinality({j \in 0..31 :
                                 Matrix_get_element(M, i, j) = 1 /\ x[j] = 1}) % 2

\* C16: a one-bit word that tempering spreads over several bits has been
\* tempered, and the matrix has the diagonal element of that bit.
C16_Witness ==
    /\ probe.stage = "Tempered" /\ probe.x = <<0, 2048>>
    /\ probe.y # probe.x
    /\ Matrix_get_element(tempering_matrix, 11, 11) = 1

(****************** GaussElimination::new(lhs, rhs).solve() ****************)

GaussInit ==
    /\ system = NoSystem /\ given = NoSystem /\ solution = NoVector /\ pc = "Start"
    /\ result = NoResult
    /\ debug_assertions \in BOOLEAN
    /\ StIdle /\ SlIdle
    /\ MtIdle /\ VeIdle /\ MaIdle /\ ProbeIdle

\* What GaussElimination::new(lhs, rhs) leaves: the solver, or a panic.
Construct(lhs, rhs) ==
    \E g \in {GaussElimination_new(lhs, rhs)} :
        IF g = PANIC
        THEN /\ pc' = "Done"
             /\ result' = [res |-> "Panic", value |-> "Panic"]
             /\ UNCHANGED <<system, given>>
        ELSE /\ pc' = "Constructed"
             /\ system' = g
             /\ given' = g
             /\ result' = result

\* let mut system = GaussElimination::new(lhs, rhs); for an arbitrary
\* rows x columns matrix lhs (its 1 elements are `cells`) and an arbitrary rhs of
\* dimension rows (its 1 elements are `picked`).
NewSystem(rows, columns) ==
    /\ pc = "Start"
    /\ rows * columns <= MaxCells
    /\ \E cells \in SUBSET ((0..(rows - 1)) \X (0..(columns - 1))),
          picked \in SUBSET (0..(rows - 1)) :
           Construct(Matrix_with(rows, columns, cells), Vector_random(rows, picked))
    /\ UNCHANGED <<solution, mtvars, probe, debug_assertions, stvars, slvars, vevars, mavars>>

\* let result = system.solve();
Solve ==
    /\ pc = "Constructed"
    /\ \E r \in {solve(system)} :
           /\ system' = r.sys
           /\ result' = [res |-> r.res, value |-> r.value]
    /\ pc' = "Done"
    /\ UNCHANGED <<given, solution, mtvars, probe, debug_assertions, stvars, slvars, vevars, mavars>>

GaussNext ==
    \/ \E rows \in 0..MaxRows, columns \in 0..MaxColumns : NewSystem(rows, columns)
    \/ Solve

SpecGauss == GaussInit /\ [][GaussNext]_vars

\* C7: a system whose lhs has an all-zero column c < columns (any rows, any
\* rhs) makes solve() return Err(UnderDeterminedSystemError).
C7_ZeroColumnIsUnderDetermined ==
    (/\ pc = "Done"
     /\ \E c \in 0..(given.lhs.dimensions[2] - 1) :
            \A r \in 0..(given.lhs.dimensions[1] - 1) :
                Matrix_get_element(given.lhs, r, c) = 0)
        => result.res = "UnderDeterminedSystemError"

\* C7: solve() has returned on a 3 x 2 system whose second column is all zero
\* and whose first column is not.
C7_Witness ==
    /\ pc = "Done" /\ given.lhs.dimensions = <<3, 2>>
    /\ \A r \in 0..2 : Matrix_get_element(given.lhs, r, 1) = 0
    /\ \E r \in 0..2 : Matrix_get_element(given.lhs, r, 0) = 1
    /\ result.res = "UnderDeterminedSystemError"

\* C8: when elimination has gone through every column of an over-determined
\* system (rows > columns) and a redundant row (index >= columns) is left with
\* a non-zero right-hand side, solve() returns Err(InconsistentSystemError).
C8_ResidualIsInconsistent ==
    (/\ pc = "Done"
     /\ result.res # "UnderDeterminedSystemError"
     /\ system.lhs.dimensions[1] > system.lhs.dimensions[2]
     /\ \E r \in system.lhs.dimensions[2]..(system.lhs.dimensions[1] - 1) :
            system.rhs.limbs[r \div 64][r % 64] = 1)
        => result.res = "InconsistentSystemError"

\* C8: solve() has returned on a 3 x 2 system whose elimination left a 1 in
\* the right-hand side of the redundant row.
C8_Witness ==
    /\ pc = "Done" /\ system.lhs.dimensions = <<3, 2>>
    /\ system.rhs.limbs[0][2] = 1
    /\ Matrix_get_element(system.lhs, 0, 0) = 1 /\ Matrix_get_element(system.lhs, 1, 1) = 1
    /\ result.res = "InconsistentSystemError"

\* C9: on a well-formed rows x columns system (rows < columns, rows = 0 and
\* columns = 0 included) with rhs.dimension = rows, neither
\* GaussElimination::new nor solve() panics: solve() returns Ok,
\* Err(UnderDeterminedSystemError) or Err(InconsistentSystemError).
C9_SolveNeverPanics ==
    pc = "Done" =>
        result.res \in {"Ok", "UnderDeterminedSystemError", "InconsistentSystemError"}

\* C9: solve() has returned on a system with fewer rows than columns whose
\* first column has a pivot, in a build without debug assertions.
C9_Witness ==
    /\ pc = "Done" /\ ~debug_assertions
    /\ given.lhs.dimensions = <<2, 4>>
    /\ Matrix_get_element(given.lhs, 1, 0) = 1 /\ Matrix_get_element(given.lhs, 0, 1) = 1
    /\ result.res = "UnderDeterminedSystemError"

\* The assignments of the unknowns of a system with the given lhs.
Assignments(lhs) == [0..(lhs.dimensions[2] - 1) -> {0, 1}]

\* Row r of lhs times the assignment y, over GF(2).
RowTimes(lhs, r, y) ==
    Cardinality({c \in DOMAIN y : Matrix_get_element(lhs, r, c) = 1 /\ y[c] = 1}) % 2

\* The assignment y satisfies every equation of the system s = [lhs, rhs].
Satisfies(s, y) ==
    \A r \in 0..(s.lhs.dimensions[1] - 1) :
        RowTimes(s.lhs, r, y) = Vector_get_element(s.rhs, r)

\* lhs has column rank < columns: a non-zero combination of its columns is 0.
RankDeficient(lhs) ==
    \E y \in Assignments(lhs) :
        /\ \E c \in DOMAIN y : y[c] = 1
        /\ \A r \in 0..(lhs.dimensions[1] - 1) : RowTimes(lhs, r, y) = 0

\* C26: whenever solve() returns Ok(x) for an original system (A, b) with A of
\* size rows x columns, the first `columns` entries of x satisfy A x = b over
\* GF(2) for every row of A, no other assignment of those entries does, and
\* the entries of x at index >= columns are 0.
C26_OkIsTheUniqueSolution ==
    (pc = "Done" /\ result.res = "Ok")
        => /\ result.value.dimension = given.lhs.dimensions[1]
           /\ given.lhs.dimensions[2] <= given.lhs.dimensions[1]
           /\ \A y \in Assignments(given.lhs) :
                  Satisfies(given, y)
                      <=> \A c \in DOMAIN y : y[c] = Vector_get_element(result.value, c)
           /\ \A i \in given.lhs.dimensions[2]..(given.lhs.dimensions[1] - 1) :
                  Vector_get_element(result.value, i) = 0

\* C26: solve() has returned the non-zero solution of a 3 x 2 system whose
\* first row starts with 0.
C26_Witness ==
    /\ pc = "Done" /\ result.res = "Ok"
    /\ given.lhs.dimensions = <<3, 2>>
    /\ Matrix_get_element(given.lhs, 0, 0) = 0 /\ Matrix_get_element(given.lhs, 2, 1) = 1
    /\ Vector_get_element(given.rhs, 2) = 1
    /\ Vector_get_element(result.value, 1) = 1

\* C27: solve() classifies every system exactly: Err(UnderDeterminedSystemError)
\* if and only if lhs has column rank < columns (contradictory or not),
\* Err(InconsistentSystemError) if and only if lhs has full column rank and no
\* vector satisfies all equations, and Ok otherwise.
C27_ExactClassification ==
    (pc = "Done" /\ given # NoSystem)
        => /\ (result.res = "UnderDeterminedSystemError" <=> RankDeficient(given.lhs))
           /\ (result.res = "InconsistentSystemError"
                   <=> /\ ~RankDeficient(given.lhs)
                       /\ ~\E y \in Assignments(given.lhs) : Satisfies(given, y))
           /\ (result.res = "Ok"
                   <=> /\ ~RankDeficient(given.lhs)
                       /\ \E y \in Assignments(given.lhs) : Satisfies(given, y))

\* C27: solve() has returned on a contradictory 3 x 2 system of column rank 1:
\* two equal non-zero columns, and right-hand sides 0 and 1 for equal rows.
C27_Witness ==
    /\ pc = "Done" /\ given.lhs.dimensions = <<3, 2>>
    /\ \A r \in 0..2 : Matrix_get_element(given.lhs, r, 0) = 1
                       /\ Matrix_get_element(given.lhs, r, 1) = 1
    /\ Vector_get_element(given.rhs, 0) = 0 /\ Vector_get_element(given.rhs, 1) = 1
    /\ result.res = "UnderDeterminedSystemError"

(********* solve() one loop iteration at a time (GaussElimination::solve) ***)

\* let mut system = GaussElimination::new(lhs, rhs); as NewSystem, for the
\* systems that are then solved one iteration at a time.
StepSystem(rows, columns) ==
    /\ pc = "Start"
    /\ rows * columns <= MaxStepCells
    /\ \E cells \in SUBSET ((0..(rows - 1)) \X (0..(columns - 1))),
          picked \in SUBSET (0..(rows - 1)) :
           Construct(Matrix_with(rows, columns, cells), Vector_random(rows, picked))
    /\ UNCHANGED <<solution, mtvars, probe, debug_assertions, stvars, slvars, vevars, mavars>>

\* One iteration of `for column in 0..self.lhs.dimensions.1`: self.pivot(column)?
\* returns the error from solve, otherwise the inner loop clears the column.
PivotAndEliminate ==
    /\ pc = "Constructed"
    /\ at_column < system.lhs.dimensions[2]
    /\ \E r \in {solve_column(system, at_column)} :
           /\ system' = r.sys
           /\ IF r.res = "Ok"
              THEN /\ at_column' = at_column + 1
                   /\ UNCHANGED <<pc, result>>
              ELSE /\ pc' = "Done"
                   /\ result' = [res |-> r.res, value |-> r.res]
                   /\ UNCHANGED at_column
    /\ UNCHANGED <<given, again, solution, mtvars, probe, debug_assertions, stvars,
                   vevars, mavars>>

\* The consistency loop and the return of solve, once the outer loop is over.
ScanRows ==
    /\ pc = "Constructed"
    /\ at_column >= system.lhs.dimensions[2]
    /\ pc' = "Done"
    /\ \E r \in {scanned(scan(system), system)} :
           /\ system' = r.sys
           /\ result' = [res |-> r.res, value |-> r.value]
    /\ UNCHANGED <<given, slvars, solution, mtvars, probe, debug_assertions, stvars,
                   vevars, mavars>>

\* let second = system.solve(); on the solver the first call left.
SolveAgain ==
    /\ pc = "Done"
    /\ result.res # "Panic"
    /\ pc' = "Again"
    /\ \E r \in {solve(system)} :
           /\ system' = r.sys
           /\ again' = [res |-> r.res,
                        value |-> IF r.res = "Ok" THEN r.value ELSE NoVector]
    /\ UNCHANGED <<given, result, at_column, solution, mtvars, probe, debug_assertions,
                   stvars, vevars, mavars>>

SolveStep == PivotAndEliminate \/ ScanRows

\* What every step of SolveStep does to pc and at_column, and no other step of
\* StepsNext does: the call passes a column or returns.
SolveProgress ==
    /\ pc = "Constructed"
    /\ \/ pc' = "Constructed" /\ at_column' = at_column + 1
       \/ pc' = "Done" /\ at_column' = at_column

StepsNext ==
    \/ \E rows \in 0..MaxRows, columns \in 0..MaxColumns : StepSystem(rows, columns)
    \/ PivotAndEliminate
    \/ ScanRows
    \/ SolveAgain

SpecSteps == GaussInit /\ [][StepsNext]_vars

\* solve() runs in the calling thread: a started call takes its next step
\* (SolveStep, which is enabled whenever pc = "Constructed").
SpecStepsLive == GaussInit /\ [][StepsNext]_vars /\ WF_<<pc, at_column>>(SolveProgress)

\* Column c of lhs holds a 1 in row c and 0 in every other row.
UnitColumn(lhs, c) ==
    \A r \in 0..(lhs.dimensions[1] - 1) :
        Matrix_get_element(lhs, r, c) = (IF r = c THEN 1 ELSE 0)

\* Column c of lhs has a 1 at some row >= c.
HasPivot(lhs, c) ==
    \E r \in c..(lhs.dimensions[1] - 1) : Matrix_get_element(lhs, r, c) = 1

\* C24: after each processed column c, column c of lhs holds a 1 in row c and
\* 0 in every other row (and stays so); whenever solve() returns Ok, the
\* leading columns x columns block of lhs is the identity and every row at
\* index >= columns is all zero.
C24_ReducedRowEchelonForm ==
    /\ (pc \in {"Constructed", "Done"} /\ given # NoSystem)
           => \A c \in 0..(at_column - 1) : UnitColumn(system.lhs, c)
    /\ (pc = "Done" /\ result.res = "Ok")
           => /\ at_column = system.lhs.dimensions[2]
              /\ \A r \in 0..(system.lhs.dimensions[1] - 1) :
                 \A c \in 0..(system.lhs.dimensions[2] - 1) :
                     Matrix_get_element(system.lhs, r, c) = (IF r = c THEN 1 ELSE 0)

\* C24: solve() has returned Ok on a 3 x 2 system whose first column had its
\* only 1 in the last row: lhs is now the identity on top of a zero row.
C24_Witness ==
    /\ pc = "Done" /\ result.res = "Ok"
    /\ given.lhs.dimensions = <<3, 2>>
    /\ Matrix_get_element(given.lhs, 0, 0) = 0 /\ Matrix_get_element(given.lhs, 1, 0) = 0
    /\ Matrix_get_element(given.lhs, 2, 0) = 1 /\ Matrix_get_element(given.lhs, 2, 1) = 1
    /\ at_column = 2
    /\ Matrix_get_element(system.lhs, 0, 0) = 1 /\ Matrix_get_element(system.lhs, 2, 0) = 0
    /\ Matrix_get_element(system.lhs, 2, 1) = 0

\* The outcome of a call of solve() is one of the three outcomes, reached
\* after at most `columns` iterations, and it is the one solve gives as a whole.
OutcomeOfSteps ==
    /\ (pc = "Constructed") => at_column <= system.lhs.dimensions[2]
    /\ (pc = "Done" /\ given # NoSystem)
           => /\ result.res \in {"Ok", "UnderDeterminedSystemError",
                                 "InconsistentSystemError"}
              /\ (result.res = "UnderDeterminedSystemError")
                     <=> (at_column < system.lhs.dimensions[2])
              /\ (result.res # "UnderDeterminedSystemError")
                     => (at_column = system.lhs.dimensions[2])
              /\ \E whole \in {solve(given)} :
                     /\ whole.res = result.res
                     /\ whole.value = result.value
                     /\ whole.sys = system

\* The columns are processed in increasing order, each one that has a pivot
\* is passed, and the first one that has none ends the call.
ColumnsInOrder ==
    (pc = "Constructed" /\ pc' \in {"Constructed", "Done"})
        => /\ at_column' \in {at_column, at_column + 1}
           /\ (at_column' = at_column + 1)
                  => (pc' = "Constructed" /\ HasPivot(system.lhs, at_column))
           /\ (at_column' = at_column /\ at_column < system.lhs.dimensions[2])
                  => /\ pc' = "Done"
                     /\ ~HasPivot(system.lhs, at_column)
                     /\ result'.res = "UnderDeterminedSystemError"

\* C25: every call of solve() terminates, after at most `columns`
\* pivot-and-eliminate iterations and one consistency scan, in exactly one of
\* Ok, UnderDeterminedSystemError and InconsistentSystemError; it processes
\* the columns in increasing order and stops at the first column without a pivot.
C25_SolveTerminates ==
    /\ []OutcomeOfSteps
    /\ [][ColumnsInOrder /\ (SolveProgress <=> SolveStep)]_vars
    /\ (pc = "Constructed") ~> (pc = "Done")

\* C25: solve() has stopped at the second of three columns of a 2 x 3 system,
\* after one iteration that found a pivot.
C25_Witness ==
    /\ pc = "Done" /\ given.lhs.dimensions = <<2, 3>>
    /\ at_column = 1
    /\ result.res = "UnderDeterminedSystemError"
    /\ \E r \in 0..1 : Matrix_get_element(given.lhs, r, 1) = 1
    /\ ~HasPivot(system.lhs, 1)

\* C28: calling solve() again on the same GaussElimination returns the same
\* outcome as the first call: the same Ok vector, or the same error variant.
C28_SolveIsIdempotent ==
    (pc = "Again")
        => /\ again.res = result.res
           /\ (result.res = "Ok") => (again.value = result.value)

\* C28: the second solve() on a 3 x 2 system that the first call changed has
\* returned, after a first call that returned a non-zero Ok vector.
C28_Witness ==
    /\ pc = "Again" /\ result.res = "Ok" /\ again.res = "Ok"
    /\ given.lhs.dimensions = <<3, 2>>
    /\ Matrix_get_element(given.lhs, 2, 0) = 1
    /\ given.rhs # result.value
    /\ Vector_get_element(result.value, 0) = 1

(********* Systems with a known solution (tests::gauss_elimination) ********)

\* let mut lhs = Matrix::diagonal(size); let mut rhs = Vector::random(size);
\* let solution = rhs.clone();
Diagonal(size, picked) ==
    /\ pc = "Start"
    /\ system' = [lhs |-> Matrix_diagonal(size), rhs |-> Vector_random(size, picked)]
    /\ solution' = Vector_random(size, picked)
    /\ pc' = "Building"
    /\ UNCHANGED <<given, result, mtvars, probe, debug_assertions, stvars, slvars, vevars, mavars>>

\* A step of the build that panicked ends the run.
Built(lhs, rhs) ==
    IF lhs = PANIC \/ rhs = PANIC
    THEN /\ pc' = "Done"
         /\ result' = [res |-> "Panic", value |-> "Panic"]
         /\ system' = system
    ELSE /\ pc' = pc
         /\ result' = result
         /\ system' = [lhs |-> lhs, rhs |-> rhs]

\* lhs.add_to_row(j, &lhs.get_row(i)); rhs.add_to_element(j, rhs.get_element(i))
AddRow(i, j) ==
    /\ pc = "Building"
    /\ i # j
    /\ i < system.rhs.dimension /\ j < system.rhs.dimension
    /\ Built(Matrix_add_to_row(system.lhs, j, Matrix_get_row(system.lhs, i)),
             Vector_add_to_element(system.rhs, j, Vector_get_element(system.rhs, i)))
    /\ UNCHANGED <<given, solution, mtvars, probe, debug_assertions, stvars, slvars, vevars, mavars>>

\* lhs.swap_rows(i, j); rhs.swap_elements(i, j);
SwapRows(i, j) ==
    /\ pc = "Building"
    /\ i < system.rhs.dimension /\ j < system.rhs.dimension
    /\ Built(Matrix_swap_rows(system.lhs, i, j), Vector_swap_elements(system.rhs, i, j))
    /\ UNCHANGED <<given, solution, mtvars, probe, debug_assertions, stvars, slvars, vevars, mavars>>

\* let mut system = GaussElimination::new(lhs, rhs);
NewSolver ==
    /\ pc = "Building"
    /\ Construct(system.lhs, system.rhs)
    /\ UNCHANGED <<solution, mtvars, probe, debug_assertions, stvars, slvars, vevars, mavars>>

SolvableNext ==
    \/ \E size \in 1..MaxN : \E picked \in SUBSET (0..(size - 1)) : Diagonal(size, picked)
    \/ \E i, j \in 0..(MaxN - 1) : AddRow(i, j)
    \/ \E i, j \in 0..(MaxN - 1) : SwapRows(i, j)
    \/ NewSolver
    \/ Solve

SpecSolvable == GaussInit /\ [][SolvableNext]_vars

\* C6: for a system obtained from (Matrix::diagonal(n), s) by row additions
\* (row j += row i, i # j) and row swaps applied to lhs and rhs together,
\* GaussElimination::new(lhs, rhs).solve() returns Ok(s).
C6_SolveReturnsTheKnownSolution ==
    pc = "Done" => result.res = "Ok" /\ result.value = solution

\* C6: solve() has returned the known, non-zero solution of a system of the
\* largest size whose rows were mixed and swapped.
C6_Witness ==
    /\ pc = "Done" /\ given.lhs.dimensions[1] = MaxN
    /\ Matrix_get_element(given.lhs, 0, 0) = 0
    /\ Matrix_get_element(given.lhs, MaxN - 1, 0) = 1
    /\ given.rhs # solution
    /\ result.res = "Ok" /\ result.value = solution

(******************** Element access on a Vector ***************************)

\* The indices tried: in range, just past the dimension, and around the end of
\* the first limb.
Indices == (0..MaxDimension) \cup {63, 64}

VectorInit ==
    /\ vec = NoVector /\ access = NoAccess /\ other = NoVector
    /\ debug_assertions \in BOOLEAN
    /\ StIdle /\ SlIdle
    /\ MtIdle /\ GeIdle /\ MaIdle /\ ProbeIdle

\* let mut vector = Vector::new(dimension);
NewVector(dimension) ==
    /\ vec = NoVector
    /\ vec' = Vector_zeroes(dimension)
    /\ access' = [access EXCEPT !.op = "new"]
    /\ UNCHANGED <<mtvars, probe, debug_assertions, stvars, slvars, gevars, other, mavars>>

\* vector.get_element(index)
Get(index) ==
    /\ vec # NoVector /\ ~access.panicked
    /\ \E e \in {Vector_get_element(vec, index)} :
           access' = [op |-> "get", first |-> index, second |-> index,
                      panicked |-> (e = PANIC_U8),
                      value |-> IF e = PANIC_U8 THEN 0 ELSE e]
    /\ UNCHANGED <<vec, mtvars, probe, debug_assertions, stvars, slvars, gevars, other, mavars>>

\* vector.set_element(index, value)
Set(index, value) ==
    /\ vec # NoVector /\ ~access.panicked
    /\ \E w \in {Vector_set_element(vec, index, value)} :
           /\ access' = [op |-> "set", first |-> index, second |-> index,
                         panicked |-> (w = PANIC), value |-> value]
           /\ vec' = IF w = PANIC THEN vec ELSE w
    /\ UNCHANGED <<mtvars, probe, debug_assertions, stvars, slvars, gevars, other, mavars>>

\* vector.swap_elements(first, second)
Swap(first, second) ==
    /\ vec # NoVector /\ ~access.panicked
    /\ \E w \in {Vector_swap_elements(vec, first, second)} :
           /\ access' = [op |-> "swap", first |-> first, second |-> second,
                         panicked |-> (w = PANIC), value |-> 0]
           /\ vec' = IF w = PANIC THEN vec ELSE w
    /\ UNCHANGED <<mtvars, probe, debug_assertions, stvars, slvars, gevars, other, mavars>>

VectorNext ==
    \/ \E dimension \in 0..MaxDimension : NewVector(dimension)
    \/ \E index \in Indices : Get(index)
    \/ \E index \in Indices, value \in 0..1 : Set(index, value)
    \/ \E first, second \in Indices : Swap(first, second)

SpecVector == VectorInit /\ [][VectorNext]_vars

\* C10: get_element, set_element and swap_elements called with an index >=
\* dimension panic: they never return an element or modify the vector.
C10_OutOfRangeAccessPanics ==
    (/\ access.op \in {"get", "set", "swap"}
     /\ (access.first >= vec.dimension \/ access.second >= vec.dimension))
        => access.panicked

(***************************************************************************)
(* SpecVectors: a Vector is built by one of its constructors, then used    *)
(* through its element operations, +, += and the integer conversions, in   *)
(* a debug build and in a release build.                                   *)
(***************************************************************************)

\* The dimensions a vector is built with: the small ones and every integer width.
Dimensions == (0..MaxDimension) \cup Widths

\* The element positions the runs touch in a vector of the given dimension: the
\* first and last element and the first element of the second limb.
Positions(dimension) == {i \in {0, 64, dimension - 1} : 0 <= i /\ i < dimension}

\* The right-hand sides of + and += for a vector of the given dimension.
Operands(dimension) ==
    {Vector_zeroes(dimension), Vector_ones(dimension)}
        \cup {Vector_random(dimension, picked) : picked \in SUBSET Positions(dimension)}

VectorsInit ==
    /\ vec = NoVector /\ access = NoAccess /\ other = NoVector
    /\ debug_assertions \in BOOLEAN
    /\ StIdle /\ SlIdle
    /\ MtIdle /\ GeIdle /\ MaIdle /\ ProbeIdle

\* let vector = Vector::zeroes(dimension);
Zeroes(dimension) ==
    /\ vec = NoVector
    /\ vec' = Vector_zeroes(dimension)
    /\ access' = [access EXCEPT !.op = "zeroes"]
    /\ UNCHANGED <<mtvars, probe, debug_assertions, stvars, slvars, gevars, other, mavars>>

\* let vector = Vector::ones(dimension);
Ones(dimension) ==
    /\ vec = NoVector
    /\ vec' = Vector_ones(dimension)
    /\ access' = [access EXCEPT !.op = "ones"]
    /\ UNCHANGED <<mtvars, probe, debug_assertions, stvars, slvars, gevars, other, mavars>>

\* let vector = Vector::random(dimension); picked are the indices whose
\* rand::random::<bool>() is true.
RandomVector(dimension) ==
    /\ vec = NoVector
    /\ \E picked \in SUBSET Positions(dimension) :
           vec' = Vector_random(dimension, picked)
    /\ access' = [access EXCEPT !.op = "random"]
    /\ UNCHANGED <<mtvars, probe, debug_assertions, stvars, slvars, gevars, other, mavars>>

\* let vector = Vector::from(value); for a value of the given width whose bits
\* at the positions of picked are set.  other keeps the value.
FromUint(width) ==
    /\ vec = NoVector
    /\ \E picked \in SUBSET Positions(width) :
           \E b \in {array([j \in 0..(width - 1) |-> IF j \in picked THEN 1 ELSE 0])} :
               /\ vec' = Vector_from_uint(width, b)
               /\ other' = [width |-> width, bits |-> b]
    /\ access' = [access EXCEPT !.op = "from"]
    /\ UNCHANGED <<mtvars, probe, debug_assertions, stvars, slvars, gevars, mavars>>

\* vector.set_element(index, value), for an index the run touches or the first
\* index past the end.
SetElement ==
    /\ vec # NoVector /\ ~access.panicked /\ access.op # "try_into"
    /\ \E index \in Positions(vec.dimension) \cup {vec.dimension}, value \in 0..1 :
           \E w \in {Vector_set_element(vec, index, value)} :
               /\ access' = [op |-> "set_element", first |-> index, second |-> index,
                             panicked |-> (w = PANIC), value |-> value]
               /\ vec' = IF w = PANIC THEN vec ELSE w
    /\ other' = NoVector
    /\ UNCHANGED <<mtvars, probe, debug_assertions, stvars, slvars, gevars, mavars>>

\* vector.add_to_element(index, value)
AddToElement ==
    /\ vec # NoVector /\ ~access.panicked /\ access.op # "try_into"
    /\ \E index \in Positions(vec.dimension) \cup {vec.dimension}, value \in 0..1 :
           \E w \in {Vector_add_to_element(vec, index, value)} :
               /\ access' = [op |-> "add_to_element", first |-> index, second |-> index,
                             panicked |-> (w = PANIC), value |-> value]
               /\ vec' = IF w = PANIC THEN vec ELSE w
    /\ other' = NoVector
    /\ UNCHANGED <<mtvars, probe, debug_assertions, stvars, slvars, gevars, mavars>>

\* vector.swap_elements(first, second)
SwapElements ==
    /\ vec # NoVector /\ ~access.panicked /\ access.op # "try_into"
    /\ \E first \in Positions(vec.dimension) \cup {vec.dimension},
          second \in Positions(vec.dimension) :
           \E w \in {Vector_swap_elements(vec, first, second)} :
               /\ access' = [op |-> "swap_elements", first |-> first, second |-> second,
                             panicked |-> (w = PANIC), value |-> 0]
               /\ vec' = IF w = PANIC THEN vec ELSE w
    /\ other' = NoVector
    /\ UNCHANGED <<mtvars, probe, debug_assertions, stvars, slvars, gevars, mavars>>

\* let vector = vector + operand;  (by value and by reference)
AddVector ==
    /\ vec # NoVector /\ ~access.panicked /\ access.op # "try_into"
    /\ \E operand \in Operands(vec.dimension) :
           \E w \in {Vector_add(vec, operand)} :
               /\ access' = [op |-> "add", first |-> 0, second |-> 0,
                             panicked |-> (w = PANIC), value |-> 0]
               /\ vec' = IF w = PANIC THEN vec ELSE w
               /\ other' = operand
    /\ UNCHANGED <<mtvars, probe, debug_assertions, stvars, slvars, gevars, mavars>>

\* vector += operand;  (by value and by reference)
AddAssignVector ==
    /\ vec # NoVector /\ ~access.panicked /\ access.op # "try_into"
    /\ \E operand \in Operands(vec.dimension) :
           \E w \in {Vector_add_assign(vec, operand)} :
               /\ access' = [op |-> "add_assign", first |-> 0, second |-> 0,
                             panicked |-> (w = PANIC), value |-> 0]
               /\ vec' = IF w = PANIC THEN vec ELSE w
               /\ other' = operand
    /\ UNCHANGED <<mtvars, probe, debug_assertions, stvars, slvars, gevars, mavars>>

\* let result: Result<uN, Error> = vector.try_into();  N = width.  The
\* conversion consumes the vector: the run ends here.
TryInto(width) ==
    /\ vec # NoVector /\ ~access.panicked /\ access.op # "try_into"
    /\ \E r \in {Vector_try_into_uint(width, vec)} :
           access' = [op |-> "try_into", first |-> width, second |-> 0,
                      panicked |-> (r = PANIC), value |-> r]
    /\ UNCHANGED <<vec, other, mtvars, probe, debug_assertions, stvars, slvars, gevars, mavars>>

VectorsNext ==
    \/ \E dimension \in Dimensions : Zeroes(dimension)
    \/ \E dimension \in Dimensions : Ones(dimension)
    \/ \E dimension \in Dimensions : RandomVector(dimension)
    \/ \E width \in Widths : FromUint(width)
    \/ SetElement
    \/ AddToElement
    \/ SwapElements
    \/ AddVector
    \/ AddAssignVector
    \/ \E width \in Widths : TryInto(width)

SpecVectors == VectorsInit /\ [][VectorsNext]_vars

\* C11: for every dimension d >= 1, multiples of 64 included, every element
\* i < d of Vector::ones(d) is 1.
C11_OnesAreAllOne ==
    access.op = "ones"
        => \A i \in 0..(vec.dimension - 1) : Vector_get_element(vec, i) = 1

\* C12: after any sequence of constructors and operations, every bit of the
\* limbs at a position >= dimension is 0 (so that == on dimension and limbs is
\* equality of dimension and elements).
C12_PaddingIsZero ==
    vec # NoVector
        => \A l \in DOMAIN vec.limbs : \A j \in 0..63 :
               64 * l + j >= vec.dimension => vec.limbs[l][j] = 0

\* C17: for each width w in {8, 16, 32, 64, 128} and every value v of that
\* width, Vector::from(v) has dimension w and converting it back gives Ok(v).
C17_FromThenTryIntoIsOk ==
    (/\ access.op = "try_into"
     /\ "width" \in DOMAIN other
     /\ other.width = access.first)
        => /\ vec.dimension = other.width
           /\ ~access.panicked
           /\ access.value.ok
           /\ access.value.value = other.bits

C17_Witness ==
    /\ access.op = "try_into"
    /\ "width" \in DOMAIN other
    /\ other.width = 128 /\ access.first = 128
    /\ other.bits[127] = 1 /\ other.bits[0] = 0
    /\ ~access.panicked
    /\ access.value.ok

\* C18: converting a Vector to an unsigned integer of width w returns
\* Err(ConversionError) whenever its dimension differs from w, never a value.
C18_OtherDimensionIsAnError ==
    (access.op = "try_into" /\ vec.dimension # access.first)
        => /\ ~access.panicked
           /\ ~access.value.ok
           /\ access.value.value = "ConversionError"

C18_Witness ==
    /\ access.op = "try_into"
    /\ vec.dimension = 64 /\ access.first = 32
    /\ Vector_get_element(vec, 63) = 1
    /\ ~access.panicked
    /\ ~access.value.ok

\* C19: for all vectors v and w of the same dimension, v + v is the zero
\* vector of that dimension and (v + w) + w is v, for + and for +=.
C19_AdditionIsAnInvolution ==
    (access.op \in {"add", "add_assign"} /\ ~access.panicked)
        => /\ Vector_add(vec, vec) = Vector_zeroes(vec.dimension)
           /\ Vector_add_assign(vec, vec) = Vector_zeroes(vec.dimension)
           /\ Vector_add(Vector_add(vec, other), other) = vec
           /\ Vector_add_assign(Vector_add_assign(vec, other), other) = vec

C19_Witness ==
    /\ access.op = "add_assign" /\ ~access.panicked
    /\ vec.dimension = 128
    /\ Vector_get_element(other, 64) = 1
    /\ Vector_get_element(vec, 127) = 1
    /\ Vector_get_element(vec, 64) = 0

(***************************************************************************)
(* SpecMatrix: a Matrix is built by one of its constructors, then used     *)
(* through its element and row operations, +, +=, <<, >> and & with a      *)
(* selector vector, in a debug build and in a release build.  matop keeps  *)
(* the last operation, its argument and the matrix it was applied to.      *)
(***************************************************************************)

Sides == 1..MaxSide

\* The shift counts: the small ones and usize::MAX.
Shifts == (0..MaxShift) \cup {usize_MAX}

\* The vectors handed to set_row and add_to_row of a matrix with the given
\* number of columns; set_row accepts a vector of any dimension.
RowValues(columns) ==
    {Vector_zeroes(columns), Vector_ones(columns), Vector_zeroes(columns + 1)}

\* The right-hand sides of + and += for a matrix of the given dimensions.
MatrixOperands(rows, columns) ==
    {Matrix_ones(rows, columns)}
        \cup {Matrix_random(rows, columns, picked) : picked \in SUBSET (0..(columns - 1))}

\* The record of an operation op with argument arg applied to mat, whose
\* outcome is the matrix (or PANIC) r.
Applied(op, arg, r) ==
    /\ matop' = [op |-> op, before |-> mat, arg |-> arg, panicked |-> (r = PANIC)]
    /\ mat' = IF r = PANIC THEN mat ELSE r

\* The record of a constructor.
Constructed(op) == matop' = [matop EXCEPT !.op = op]

MatrixInit ==
    /\ mat = NoMatrix /\ matop = NoMatOp
    /\ debug_assertions \in BOOLEAN
    /\ StIdle /\ SlIdle
    /\ MtIdle /\ GeIdle /\ VeIdle /\ ProbeIdle

\* let matrix = Matrix::zeroes(rows, columns);
MatrixZeroes(rows, columns) ==
    /\ mat = NoMatrix
    /\ mat' = Matrix_zeroes(rows, columns)
    /\ Constructed("zeroes")
    /\ UNCHANGED <<mtvars, probe, debug_assertions, stvars, slvars, gevars, vevars>>

\* let matrix = Matrix::ones(rows, columns);
MatrixOnes(rows, columns) ==
    /\ mat = NoMatrix
    /\ mat' = Matrix_ones(rows, columns)
    /\ Constructed("ones")
    /\ UNCHANGED <<mtvars, probe, debug_assertions, stvars, slvars, gevars, vevars>>

\* let matrix = Matrix::diagonal(dimension);
MatrixDiagonal(dimension) ==
    /\ mat = NoMatrix
    /\ mat' = Matrix_diagonal(dimension)
    /\ Constructed("diagonal")
    /\ UNCHANGED <<mtvars, probe, debug_assertions, stvars, slvars, gevars, vevars>>

\* let matrix = Matrix::random(rows, columns);
MatrixRandom(rows, columns) ==
    /\ mat = NoMatrix
    /\ \E picked \in SUBSET (0..(columns - 1)) :
           mat' = Matrix_random(rows, columns, picked)
    /\ Constructed("random")
    /\ UNCHANGED <<mtvars, probe, debug_assertions, stvars, slvars, gevars, vevars>>

\* matrix.set_element(row, column, value)
MatrixSetElement ==
    /\ mat # NoMatrix /\ ~matop.panicked
    /\ \E row \in 0..(mat.dimensions[1] - 1), column \in 0..(mat.dimensions[2] - 1),
          value \in 0..1 :
           Applied("set_element", <<row, column, value>>,
                   Matrix_set_element(mat, row, column, value))
    /\ UNCHANGED <<mtvars, probe, debug_assertions, stvars, slvars, gevars, vevars>>

\* matrix.add_to_element(row, column, value)
MatrixAddToElement ==
    /\ mat # NoMatrix /\ ~matop.panicked
    /\ \E row \in 0..(mat.dimensions[1] - 1), column \in 0..(mat.dimensions[2] - 1),
          value \in 0..1 :
           Applied("add_to_element", <<row, column, value>>,
                   Matrix_add_to_element(mat, row, column, value))
    /\ UNCHANGED <<mtvars, probe, debug_assertions, stvars, slvars, gevars, vevars>>

\* matrix.set_row(row, value)
MatrixSetRow ==
    /\ mat # NoMatrix /\ ~matop.panicked
    /\ \E row \in 0..(mat.dimensions[1] - 1), value \in RowValues(mat.dimensions[2]) :
           Applied("set_row", <<row, value>>, Matrix_set_row(mat, row, value))
    /\ UNCHANGED <<mtvars, probe, debug_assertions, stvars, slvars, gevars, vevars>>

\* matrix.swap_rows(first, second)
MatrixSwapRows ==
    /\ mat # NoMatrix /\ ~matop.panicked
    /\ \E first, second \in 0..(mat.dimensions[1] - 1) :
           Applied("swap_rows", <<first, second>>, Matrix_swap_rows(mat, first, second))
    /\ UNCHANGED <<mtvars, probe, debug_assertions, stvars, slvars, gevars, vevars>>

\* matrix.add_to_row(row, &value)
MatrixAddToRow ==
    /\ mat # NoMatrix /\ ~matop.panicked
    /\ \E row \in 0..(mat.dimensions[1] - 1), value \in RowValues(mat.dimensions[2]) :
           Applied("add_to_row", <<row, value>>, Matrix_add_to_row(mat, row, value))
    /\ UNCHANGED <<mtvars, probe, debug_assertions, stvars, slvars, gevars, vevars>>

\* let matrix = matrix + operand;  (by value and by reference)
MatrixAdd ==
    /\ mat # NoMatrix /\ ~matop.panicked
    /\ \E operand \in MatrixOperands(mat.dimensions[1], mat.dimensions[2]) :
           Applied("add", operand, Matrix_add(mat, operand))
    /\ UNCHANGED <<mtvars, probe, debug_assertions, stvars, slvars, gevars, vevars>>

\* matrix += operand;  (by value and by reference)
MatrixAddAssign ==
    /\ mat # NoMatrix /\ ~matop.panicked
    /\ \E operand \in MatrixOperands(mat.dimensions[1], mat.dimensions[2]) :
           /\ matop' = [op |-> "add_assign", before |-> mat, arg |-> operand,
                        panicked |-> (Matrix_add_assign(mat, operand) = PANIC)]
           /\ mat' = Matrix_add_assign_left(mat, operand)
    /\ UNCHANGED <<mtvars, probe, debug_assertions, stvars, slvars, gevars, vevars>>

\* let matrix = matrix << rhs;  (by value and by reference)
MatrixShl(rhs) ==
    /\ mat # NoMatrix /\ ~matop.panicked
    /\ Applied("shl", rhs, Matrix_shl(mat, rhs))
    /\ UNCHANGED <<mtvars, probe, debug_assertions, stvars, slvars, gevars, vevars>>

\* let matrix = matrix >> rhs;  (by value and by reference)
MatrixShr(rhs) ==
    /\ mat # NoMatrix /\ ~matop.panicked
    /\ Applied("shr", rhs, Matrix_shr(mat, rhs))
    /\ UNCHANGED <<mtvars, probe, debug_assertions, stvars, slvars, gevars, vevars>>

\* let matrix = matrix & selector;  for a selector of dimension rows whose 1
\* elements are `picked`
MatrixBitAnd ==
    /\ mat # NoMatrix /\ ~matop.panicked
    /\ \E picked \in SUBSET (0..(mat.dimensions[1] - 1)) :
           \E selector \in {Vector_random(mat.dimensions[1], picked)} :
               Applied("bitand", selector, Matrix_bitand(mat, selector))
    /\ UNCHANGED <<mtvars, probe, debug_assertions, stvars, slvars, gevars, vevars>>

MatrixNext ==
    \/ \E rows, columns \in Sides : MatrixZeroes(rows, columns)
    \/ \E rows, columns \in Sides : MatrixOnes(rows, columns)
    \/ \E dimension \in Sides : MatrixDiagonal(dimension)
    \/ \E rows, columns \in Sides : MatrixRandom(rows, columns)
    \/ MatrixSetElement
    \/ MatrixAddToElement
    \/ MatrixSetRow
    \/ MatrixSwapRows
    \/ MatrixAddToRow
    \/ MatrixAdd
    \/ MatrixAddAssign
    \/ \E rhs \in Shifts : MatrixShl(rhs)
    \/ \E rhs \in Shifts : MatrixShr(rhs)
    \/ MatrixBitAnd

SpecMatrix == MatrixInit /\ [][MatrixNext]_vars

\* C13: for every rows x columns matrix m, square or not, and every selector s
\* of dimension rows, row i of m & s is row i of m when s[i] is 1 and the zero
\* vector of dimension columns otherwise.
C13_BitAndSelectsRows ==
    (matop.op = "bitand" /\ ~matop.panicked)
        => \A i \in 0..(mat.dimensions[1] - 1) :
               mat.rows[i] = IF Vector_get_element(matop.arg, i) = 1
                             THEN matop.before.rows[i]
                             ELSE Vector_zeroes(mat.dimensions[2])

\* C14: after any sequence of constructors and operations the matrix holds
\* exactly dimensions.0 rows and every row has dimension dimensions.1.
C14_RowsMatchDimensions ==
    mat # NoMatrix
        => /\ DOMAIN mat.rows = 0..(mat.dimensions[1] - 1)
           /\ \A r \in DOMAIN mat.rows : mat.rows[r].dimension = mat.dimensions[2]

\* C15: for every matrix m and every shift count k, k >= rows included, row i
\* of m << k is row i - k of m when i >= k and the zero row otherwise, row i of
\* m >> k is row i + k of m when i + k < rows and the zero row otherwise, and
\* the dimensions are those of m.  (A negative matop.arg stands for a count
\* above every row index.)
C15_ShiftsMoveRows ==
    (matop.op \in {"shl", "shr"})
        => /\ ~matop.panicked
           /\ mat.dimensions = matop.before.dimensions
           /\ \A i \in 0..(mat.dimensions[1] - 1) :
                  mat.rows[i] =
                      IF matop.op = "shl"
                      THEN (IF matop.arg >= 0 /\ i >= matop.arg
                            THEN matop.before.rows[i - matop.arg]
                            ELSE Vector_zeroes(mat.dimensions[2]))
                      ELSE (IF matop.arg >= 0 /\ i + matop.arg < mat.dimensions[1]
                            THEN matop.before.rows[i + matop.arg]
                            ELSE Vector_zeroes(mat.dimensions[2]))

\* C30: Matrix::random(rows, columns) draws every element independently: once
\* it has returned for rows >= 2 and columns >= 1, every rows x columns 0/1
\* matrix is one of its possible results, those with different rows included.
C30_RandomDrawsEveryMatrix ==
    (matop.op = "random" /\ mat.dimensions[1] >= 2 /\ mat.dimensions[2] >= 1)
        => \A cells \in SUBSET ((0..(mat.dimensions[1] - 1))
                                   \X (0..(mat.dimensions[2] - 1))) :
               \E picked \in SUBSET (0..(mat.dimensions[2] - 1)) :
                   Matrix_random(mat.dimensions[1], mat.dimensions[2], picked)
                       = Matrix_with(mat.dimensions[1], mat.dimensions[2], cells)

====
